---- MODULE Spec2Model ----
(***************************************************************************)
(* Model of the dashboard versioning flow of DomainDashboardService        *)
(* (src/src/spaceone/dashboard/service/domain_dashboard_service.py).       *)
(*                                                                         *)
(* The dashboard store and the version store are the two collections the   *)
(* service writes through DomainDashboardManager and                       *)
(* DomainDashboardVersionManager.  The managers are not part of the        *)
(* sources at hand; their operators below follow their documented          *)
(* behaviour and are kept apart from the service code.                     *)
(*                                                                         *)
(* The versioned attributes are named as the service and its test read     *)
(* them on the stored object: layouts, dashboard_options,                  *)
(* dashboard_options_schema.                                               *)
(*                                                                         *)
(* The private and public widget and data table services                   *)
(* (private_widget_service.py, public_widget_service.py,                   *)
(* private_data_table_service.py, public_data_table_service.py) write      *)
(* four more stores through their managers, which are modelled the same    *)
(* way.  A widget carries the data_table_id that PrivateWidgetService      *)
(* checks on update and reads on load.                                     *)
(***************************************************************************)
EXTENDS Bags, FiniteSets, Integers, Sequences, TLC

VARIABLES
    dashboards,   \* dashboard store: domain_dashboard_id -> stored record
    versions,     \* version store: a bag of version records (no unique index)
    next_id,      \* next id handed out by generate_id
    last_call,    \* the request served last and its outcome
    in_flight,    \* the update each transaction is in the middle of
    pri_widgets,      \* private widget store: widget_id -> stored record
    pri_data_tables,  \* private data table store: data_table_id -> record
    pri_next,         \* next private widget id and data table id
    pri_call,         \* the private widget / data table request served last
    pub_widgets,      \* public widget store
    pub_data_tables,  \* public data table store
    pub_next,         \* next public widget id and data table id
    pub_call          \* the public widget / data table request served last

\* the stores of the private and of the public widget and data table services
pri_vars == <<pri_widgets, pri_data_tables, pri_next, pri_call>>
pub_vars == <<pub_widgets, pub_data_tables, pub_next, pub_call>>
widget_vars == <<pri_vars, pub_vars>>

\* the stores of DomainDashboardService
dashboard_vars == <<dashboards, versions, next_id, last_call, in_flight>>

vars == <<dashboards, versions, next_id, last_call, in_flight, pri_vars, pub_vars>>

----------------------------------------------------------------------------
(* Bounds of the model *)

MaxVersion == 2       \* cap of the version counter

----------------------------------------------------------------------------
(* Input values *)

Names == {"n1", "n2"}
LayoutVals == {<< >>, <<"w1">>}                  \* lists; << >> is []
OptionVals == {{}, {<<"project_id", "p1">>}}     \* dicts as sets of items
SchemaVals == {{}, {<<"project", "required">>}}
Domains == {"domain-1", "domain-2"}              \* domain_id of a caller
CreateDomains == {"domain-1"}                    \* domain_id of a creating caller
TnxUserId == "user-1"                            \* transaction meta user_id
UserIds == {"user-2"}                            \* user_id a create payload may carry
NoUser == "None"

version_keys == {"layouts", "dashboard_options", "dashboard_options_schema"}
AllVersions == 1..MaxVersion

\* Ids generate_id hands out, in this order.  Spec follows one dashboard
\* through every payload; SpecFrame follows two dashboards side by side.
\* In Spec a caller of another domain, who finds no dashboard, sends an update
\* without payload keys.
DashIds == {1}
FrameIds == {1, 2}

\* A request payload: the set of keys it carries and their values.  A key
\* that is not in `keys` has no value; its slot is pinned to the empty value.
Payload(keys, name, layouts, options, schema, user_id) ==
    [keys |-> keys,
     name |-> IF "name" \in keys THEN name ELSE "",
     layouts |-> IF "layouts" \in keys THEN layouts ELSE << >>,
     dashboard_options |-> IF "dashboard_options" \in keys THEN options ELSE {},
     dashboard_options_schema |->
         IF "dashboard_options_schema" \in keys THEN schema ELSE {},
     user_id |-> IF "user_id" \in keys THEN user_id ELSE NoUser]

NoParams == Payload({}, "", << >>, {}, {}, NoUser)

CreatePayloads ==
    {Payload(K \cup {"name"}, n, l, o, s, u) :
        K \in SUBSET (version_keys \cup {"user_id"}),
        n \in Names, l \in LayoutVals, o \in OptionVals, s \in SchemaVals,
        u \in UserIds}

UpdatePayloads ==
    {Payload(K, n, l, o, s, NoUser) :
        K \in SUBSET (version_keys \cup {"name"}),
        n \in Names, l \in LayoutVals, o \in OptionVals, s \in SchemaVals}

\* The payloads of SpecFrame: creation with no versioned key or with all
\* three, creation with the caller's own user_id or with another one, and
\* updates of the layouts alone.
CreatePayloadsFrame ==
    {Payload(K \cup {"name"}, "n1", l, {}, {}, NoUser) :
        K \in {{}, version_keys}, l \in LayoutVals}
    \cup {Payload({"name", "user_id"}, "n1", << >>, {}, {}, u) :
              u \in UserIds \cup {TnxUserId}}

UpdatePayloadsFrame ==
    {Payload(K, "", l, {}, {}, NoUser) : K \in SUBSET {"layouts"}, l \in LayoutVals}

\* What is kept of the request served last: the method, the dashboard id,
\* domain id and version number it named, the payload of a create or update
\* that went through, and the outcome (OK or the error raised).
Call(op, id, domain_id, version, params, result) ==
    [op |-> op, id |-> id, domain_id |-> domain_id, version |-> version,
     params |-> params, result |-> result]

\* The transactions that run update one manager call at a time, and where
\* each of them is: idle, or past get_domain_dashboard ("loaded") with the
\* request and the record it got, or past increase_version and
\* create_version_by_domain_dashboard_vo ("bumped"), or past
\* update_domain_dashboard_by_vo ("done"), or cut off before it
\* ("interrupted").
Transactions == {"t1", "t2"}
Idle == [pc |-> "idle"]
InFlight(pc, id, domain_id, params, vo, changed) ==
    [pc |-> pc, id |-> id, domain_id |-> domain_id, params |-> params,
     vo |-> vo, changed |-> changed]

\* A list request without domain_dashboard_id in its params
NoFilter == 0

\* What is kept of a list request: as above (id is the domain_dashboard_id
\* filter), with the records and the total_count it returned.
ListCall(domain_id, domain_dashboard_id, records) ==
    [op |-> "list", id |-> domain_dashboard_id, domain_id |-> domain_id,
     version |-> 0, params |-> NoParams, result |-> "OK",
     records |-> records, total_count |-> Cardinality(DOMAIN records)]

\* The identity the authentication layer injects into a widget or data table
\* request: domain_id and user_id for the private services, domain_id and
\* workspace_id for the public ones (user_projects is None: no project limit).
Caller(domain_id, user_id, workspace_id) ==
    [domain_id |-> domain_id, user_id |-> user_id, workspace_id |-> workspace_id]

Owner == Caller("domain-1", "user-1", "workspace-1")
Stranger == Caller("domain-1", "user-2", "workspace-2")
Callers == {Owner, Stranger}

\* Ids the widget and data table stores hand out, in this order
WidgetIds == {1, 2}
DataTableIds == {1, 2}
NoId == 0                          \* None where an id is expected
NoName == "None"                   \* a name the request does not set
NoDashboard == "None"              \* a request that names no dashboard
WidgetNames == {"n1", "n2"}

\* The dashboards a widget can be created under, the same in the private and
\* in the public dashboard store: a legacy one and a current one, both
\* belonging to Owner.
WidgetDashboards ==
    [d \in {"dash-1", "dash-2"} |->
        [version |-> IF d = "dash-1" THEN "1.0" ELSE "2.0",
         domain_id |-> Owner.domain_id,
         user_id |-> Owner.user_id,
         workspace_id |-> Owner.workspace_id]]

\* What is kept of the widget or data table request served last: the
\* method, the caller, the ids and the name the request carried, the outcome
WidgetCall(op, caller, dashboard_id, widget_id, data_table_id, name, result) ==
    [op |-> op, caller |-> caller, dashboard_id |-> dashboard_id,
     widget_id |-> widget_id, data_table_id |-> data_table_id, name |-> name,
     result |-> result]

----------------------------------------------------------------------------
(* DomainDashboardManager and DomainDashboardVersionManager *)

DefaultVersion == 1     \* version = IntField(default=1)

\* get_domain_dashboard(id, domain_id) finds the record or is ERROR_NOT_FOUND
dashboard_exists(id, domain_id) ==
    id \in DOMAIN dashboards /\ dashboards[id].domain_id = domain_id

\* create_domain_dashboard: the stored record, version from the field default
create_domain_dashboard(params, domain_id, scope) ==
    [name |-> params.name,
     version |-> DefaultVersion,
     layouts |-> params.layouts,
     dashboard_options |-> params.dashboard_options,
     dashboard_options_schema |-> params.dashboard_options_schema,
     scope |-> scope,
     user_id |-> params.user_id,
     domain_id |-> domain_id]

\* list_domain_dashboards(query) with the filters append_query_filter puts
\* into the query: the stored records of the domain, narrowed to the one
\* with the given domain_dashboard_id when the request names one
list_domain_dashboards(domain_id, domain_dashboard_id) ==
    [id \in {i \in DOMAIN dashboards :
                /\ dashboards[i].domain_id = domain_id
                /\ domain_dashboard_id \in {NoFilter, i}}
        |-> dashboards[id]]

\* increase_version: the counter of the stored record goes up by one
increase_version(vo) == [vo EXCEPT !.version = vo.version + 1]

\* create_version_by_domain_dashboard_vo: a version record copied from vo
version_of(id, vo) ==
    [domain_dashboard_id |-> id,
     version |-> vo.version,
     layouts |-> vo.layouts,
     dashboard_options |-> vo.dashboard_options,
     dashboard_options_schema |-> vo.dashboard_options_schema,
     domain_id |-> vo.domain_id]

create_version_by_domain_dashboard_vo(store, id, vo) ==
    store (+) SetToBag({version_of(id, vo)})

\* update_domain_dashboard_by_vo: every updatable key of params is written
update_domain_dashboard_by_vo(params, vo) ==
    [vo EXCEPT
        !.name = IF "name" \in params.keys THEN params.name ELSE @,
        !.layouts = IF "layouts" \in params.keys THEN params.layouts ELSE @,
        !.dashboard_options =
            IF "dashboard_options" \in params.keys
            THEN params.dashboard_options ELSE @,
        !.dashboard_options_schema =
            IF "dashboard_options_schema" \in params.keys
            THEN params.dashboard_options_schema ELSE @]

\* the records get_version(id, version, domain_id) matches
matching_versions(id, version, domain_id) ==
    {r \in BagToSet(versions) :
        /\ r.domain_dashboard_id = id
        /\ r.version = version
        /\ r.domain_id = domain_id}

----------------------------------------------------------------------------
(* DomainDashboardService *)

\* A change check that answers "changed" as soon as the payload carries any
\* versioned key, without comparing values.
check_any_version_key(vo, params) ==
    params.keys \cap version_keys # {}

\* a comparison of every versioned key the params carry
check_every_version_key(vo, params) ==
    \/ "layouts" \in params.keys /\ params.layouts # vo.layouts
    \/ "dashboard_options" \in params.keys
         /\ params.dashboard_options # vo.dashboard_options
    \/ "dashboard_options_schema" \in params.keys
         /\ params.dashboard_options_schema # vo.dashboard_options_schema

\* _check_version_change: the if/elif chain looks at the first of layouts,
\* dashboard_options, dashboard_options_schema whose params.get() is truthy
\* and compares that one alone; every other path returns None or False.
_check_version_change(vo, params) ==
    IF params.keys \cap version_keys # {}
    THEN IF "layouts" \in params.keys /\ params.layouts # << >>
         THEN vo.layouts # params.layouts
         ELSE IF "dashboard_options" \in params.keys
                 /\ params.dashboard_options # {}
         THEN vo.dashboard_options # params.dashboard_options
         ELSE IF "dashboard_options_schema" \in params.keys
                 /\ params.dashboard_options_schema # {}
         THEN params.dashboard_options_schema # vo.dashboard_options_schema
         ELSE FALSE
    ELSE FALSE

Init ==
    /\ dashboards = << >>
    /\ versions = EmptyBag
    /\ next_id = 1
    /\ last_call = Call("init", 0, "", 0, NoParams, "OK")
    /\ in_flight = [t \in Transactions |-> Idle]
    /\ pri_widgets = << >>
    /\ pri_data_tables = << >>
    /\ pri_next = [widget |-> 1, data_table |-> 1]
    /\ pri_call = WidgetCall("init", Owner, NoDashboard, NoId, NoId, NoName, "OK")
    /\ pub_widgets = << >>
    /\ pub_data_tables = << >>
    /\ pub_next = [widget |-> 1, data_table |-> 1]
    /\ pub_call = WidgetCall("init", Owner, NoDashboard, NoId, NoId, NoName, "OK")

\* create that writes the version record as soon as the payload carries any
\* of the versioned keys
create_any_version_key(params, domain_id) ==
    /\ IF "user_id" \in params.keys /\ params.user_id # TnxUserId
       THEN /\ last_call' = Call("create", 0, domain_id, 0, NoParams,
                                 "ERROR_INVALID_USER_ID")
            /\ UNCHANGED <<dashboards, versions, next_id>>
       ELSE LET scope == IF "user_id" \in params.keys THEN "USER" ELSE "DOMAIN"
                vo == create_domain_dashboard(params, domain_id, scope)
            IN /\ dashboards' = dashboards @@ (next_id :> vo)
               /\ versions' =
                    IF version_keys \cap params.keys # {}
                    THEN create_version_by_domain_dashboard_vo(versions, next_id, vo)
                    ELSE versions
               /\ next_id' = next_id + 1
               /\ last_call' = Call("create", next_id, domain_id, 0, params, "OK")

\* create that takes the user_id of the payload as it comes, without
\* comparing it with the user_id of the transaction
create_unchecked_user_id(params, domain_id) ==
    LET scope == IF "user_id" \in params.keys THEN "USER" ELSE "DOMAIN"
        vo == create_domain_dashboard(params, domain_id, scope)
    IN /\ dashboards' = dashboards @@ (next_id :> vo)
       /\ versions' =
            IF version_keys \subseteq params.keys
            THEN create_version_by_domain_dashboard_vo(versions, next_id, vo)
            ELSE versions
       /\ next_id' = next_id + 1
       /\ last_call' = Call("create", next_id, domain_id, 0, params, "OK")

\* create that stores scope DOMAIN whatever the payload carries
create_scope_always_domain(params, domain_id) ==
    /\ IF "user_id" \in params.keys /\ params.user_id # TnxUserId
       THEN /\ last_call' = Call("create", 0, domain_id, 0, NoParams,
                                 "ERROR_INVALID_USER_ID")
            /\ UNCHANGED <<dashboards, versions, next_id>>
       ELSE LET vo == create_domain_dashboard(params, domain_id, "DOMAIN")
            IN /\ dashboards' = dashboards @@ (next_id :> vo)
               /\ versions' =
                    IF version_keys \subseteq params.keys
                    THEN create_version_by_domain_dashboard_vo(versions, next_id, vo)
                    ELSE versions
               /\ next_id' = next_id + 1
               /\ last_call' = Call("create", next_id, domain_id, 0, params, "OK")

create(params, domain_id) ==
    /\ IF "user_id" \in params.keys /\ params.user_id # TnxUserId
       THEN /\ last_call' = Call("create", 0, domain_id, 0, NoParams, "ERROR_INVALID_USER_ID")
            /\ UNCHANGED <<dashboards, versions, next_id>>
       ELSE LET scope == IF "user_id" \in params.keys THEN "USER" ELSE "DOMAIN"
                vo == create_domain_dashboard(params, domain_id, scope)
            IN /\ dashboards' = dashboards @@ (next_id :> vo)
               /\ versions' =
                    IF version_keys \subseteq params.keys
                    THEN create_version_by_domain_dashboard_vo(versions, next_id, vo)
                    ELSE versions
               /\ next_id' = next_id + 1
               /\ last_call' = Call("create", next_id, domain_id, 0, params, "OK")

\* update that writes the version record before it raises the counter
update_snapshot_before_bump(id, domain_id, params) ==
    IF ~dashboard_exists(id, domain_id)
    THEN /\ last_call' = Call("update", id, domain_id, 0, NoParams, "ERROR_NOT_FOUND")
         /\ UNCHANGED <<dashboards, versions, next_id>>
    ELSE LET vo == dashboards[id]
             changed == _check_version_change(vo, params)
             bumped == IF changed THEN increase_version(vo) ELSE vo
         IN /\ changed => vo.version < MaxVersion
            /\ versions' =
                 IF changed
                 THEN create_version_by_domain_dashboard_vo(versions, id, vo)
                 ELSE versions
            /\ dashboards' =
                 [dashboards EXCEPT ![id] = update_domain_dashboard_by_vo(params, bumped)]
            /\ last_call' = Call("update", id, domain_id, 0, params, "OK")
            /\ UNCHANGED next_id

\* update that writes the version record after it has applied the payload
update_snapshot_after_write(id, domain_id, params) ==
    IF ~dashboard_exists(id, domain_id)
    THEN /\ last_call' = Call("update", id, domain_id, 0, NoParams, "ERROR_NOT_FOUND")
         /\ UNCHANGED <<dashboards, versions, next_id>>
    ELSE LET vo == dashboards[id]
             changed == _check_version_change(vo, params)
             bumped == IF changed THEN increase_version(vo) ELSE vo
             written == update_domain_dashboard_by_vo(params, bumped)
         IN /\ changed => vo.version < MaxVersion
            /\ versions' =
                 IF changed
                 THEN create_version_by_domain_dashboard_vo(versions, id, written)
                 ELSE versions
            /\ dashboards' = [dashboards EXCEPT ![id] = written]
            /\ last_call' = Call("update", id, domain_id, 0, params, "OK")
            /\ UNCHANGED next_id

\* update that keeps one version record per dashboard: on a change it
\* writes the new record over the record the dashboard already has
update_overwrites_record(id, domain_id, params) ==
    IF ~dashboard_exists(id, domain_id)
    THEN /\ last_call' = Call("update", id, domain_id, 0, NoParams, "ERROR_NOT_FOUND")
         /\ UNCHANGED <<dashboards, versions, next_id>>
    ELSE LET vo == dashboards[id]
             changed == _check_version_change(vo, params)
             bumped == IF changed THEN increase_version(vo) ELSE vo
             kept == [r \in {q \in BagToSet(versions) : q.domain_dashboard_id # id}
                         |-> CopiesIn(r, versions)]
         IN /\ changed => vo.version < MaxVersion
            /\ versions' =
                 IF changed
                 THEN create_version_by_domain_dashboard_vo(kept, id, bumped)
                 ELSE versions
            /\ dashboards' =
                 [dashboards EXCEPT ![id] = update_domain_dashboard_by_vo(params, bumped)]
            /\ last_call' = Call("update", id, domain_id, 0, params, "OK")
            /\ UNCHANGED next_id

\* update that resolves the dashboard by domain_dashboard_id alone
update_any_domain(id, domain_id, params) ==
    IF id \notin DOMAIN dashboards
    THEN /\ last_call' = Call("update", id, domain_id, 0, NoParams, "ERROR_NOT_FOUND")
         /\ UNCHANGED <<dashboards, versions, next_id>>
    ELSE LET vo == dashboards[id]
             changed == _check_version_change(vo, params)
             bumped == IF changed THEN increase_version(vo) ELSE vo
         IN /\ changed => vo.version < MaxVersion
            /\ versions' =
                 IF changed
                 THEN create_version_by_domain_dashboard_vo(versions, id, bumped)
                 ELSE versions
            /\ dashboards' =
                 [dashboards EXCEPT ![id] = update_domain_dashboard_by_vo(params, bumped)]
            /\ last_call' = Call("update", id, domain_id, 0, params, "OK")
            /\ UNCHANGED next_id

update(id, domain_id, params) ==
    IF ~dashboard_exists(id, domain_id)
    THEN /\ last_call' = Call("update", id, domain_id, 0, NoParams, "ERROR_NOT_FOUND")
         /\ UNCHANGED <<dashboards, versions, next_id>>
    ELSE LET vo == dashboards[id]
             changed == _check_version_change(vo, params)
             bumped == IF changed THEN increase_version(vo) ELSE vo
         IN /\ changed => vo.version < MaxVersion
            /\ versions' =
                 IF changed
                 THEN create_version_by_domain_dashboard_vo(versions, id, bumped)
                 ELSE versions
            /\ dashboards' =
                 [dashboards EXCEPT ![id] = update_domain_dashboard_by_vo(params, bumped)]
            /\ last_call' = Call("update", id, domain_id, 0, params, "OK")
            /\ UNCHANGED next_id

\* delete that takes the version records of the dashboard along
delete_with_versions(id, domain_id) ==
    IF ~dashboard_exists(id, domain_id)
    THEN /\ last_call' = Call("delete", id, domain_id, 0, NoParams, "ERROR_NOT_FOUND")
         /\ UNCHANGED <<dashboards, versions, next_id, widget_vars, in_flight>>
    ELSE /\ dashboards' = [k \in DOMAIN dashboards \ {id} |-> dashboards[k]]
         /\ versions' =
              [r \in {q \in BagToSet(versions) : q.domain_dashboard_id # id}
                  |-> CopiesIn(r, versions)]
         /\ last_call' = Call("delete", id, domain_id, 0, NoParams, "OK")
         /\ UNCHANGED <<next_id, widget_vars, in_flight>>

\* delete: delete_domain_dashboard(id, domain_id) looks the record up and
\* removes it; no other store is written
delete(id, domain_id) ==
    IF ~dashboard_exists(id, domain_id)
    THEN /\ last_call' = Call("delete", id, domain_id, 0, NoParams, "ERROR_NOT_FOUND")
         /\ UNCHANGED <<dashboards, versions, next_id, widget_vars, in_flight>>
    ELSE /\ dashboards' = [k \in DOMAIN dashboards \ {id} |-> dashboards[k]]
         /\ last_call' = Call("delete", id, domain_id, 0, NoParams, "OK")
         /\ UNCHANGED <<versions, next_id, widget_vars, in_flight>>

\* get_version: the version store alone is asked
get_version(id, version, domain_id) ==
    /\ last_call' = Call("get_version", id, domain_id, version, NoParams,
                         IF matching_versions(id, version, domain_id) # {}
                         THEN "OK" ELSE "ERROR_NOT_FOUND")
    /\ UNCHANGED <<dashboards, versions, next_id>>

get(id, domain_id) ==
    /\ last_call' = Call("get", id, domain_id, 0, NoParams,
                         IF dashboard_exists(id, domain_id)
                         THEN "OK" ELSE "ERROR_NOT_FOUND")
    /\ UNCHANGED <<dashboards, versions, next_id>>

\* list without the domain_dashboard_id entry of append_query_filter
list_without_id_filter(domain_id, domain_dashboard_id) ==
    /\ last_call' = ListCall(domain_id, domain_dashboard_id,
                             list_domain_dashboards(domain_id, NoFilter))
    /\ UNCHANGED <<dashboards, versions, next_id>>

list(domain_id, domain_dashboard_id) ==
    /\ last_call' = ListCall(domain_id, domain_dashboard_id,
                             list_domain_dashboards(domain_id, domain_dashboard_id))
    /\ UNCHANGED <<dashboards, versions, next_id>>

\* delete_version without the comparison against the current version
delete_version_unchecked(id, version, domain_id) ==
    IF ~dashboard_exists(id, domain_id)
       \/ matching_versions(id, version, domain_id) = {}
    THEN /\ last_call' = Call("delete_version", id, domain_id, version, NoParams,
                              "ERROR_NOT_FOUND")
         /\ UNCHANGED <<dashboards, versions, next_id>>
    ELSE /\ \E version_vo \in matching_versions(id, version, domain_id) :
                versions' = versions (-) SetToBag({version_vo})
         /\ last_call' = Call("delete_version", id, domain_id, version, NoParams, "OK")
         /\ UNCHANGED <<dashboards, next_id>>

delete_version(id, version, domain_id) ==
    IF ~dashboard_exists(id, domain_id)
    THEN /\ last_call' = Call("delete_version", id, domain_id, version, NoParams, "ERROR_NOT_FOUND")
         /\ UNCHANGED <<dashboards, versions, next_id>>
    ELSE IF dashboards[id].version = version
    THEN /\ last_call' = Call("delete_version", id, domain_id, version, NoParams, "ERROR_LATEST_VERSION")
         /\ UNCHANGED <<dashboards, versions, next_id>>
    ELSE IF matching_versions(id, version, domain_id) = {}
    THEN /\ last_call' = Call("delete_version", id, domain_id, version, NoParams, "ERROR_NOT_FOUND")
         /\ UNCHANGED <<dashboards, versions, next_id>>
    ELSE /\ \E version_vo \in matching_versions(id, version, domain_id) :
                versions' = versions (-) SetToBag({version_vo})
         /\ last_call' = Call("delete_version", id, domain_id, version, NoParams, "OK")
         /\ UNCHANGED <<dashboards, next_id>>

\* revert_version as a rewind: the version counter is set back to the number
\* of the version record as well
revert_version_rewind(id, version, domain_id) ==
    IF ~dashboard_exists(id, domain_id)
       \/ matching_versions(id, version, domain_id) = {}
    THEN /\ last_call' = Call("revert_version", id, domain_id, version, NoParams,
                              "ERROR_NOT_FOUND")
         /\ UNCHANGED <<dashboards, versions, next_id>>
    ELSE /\ \E version_vo \in matching_versions(id, version, domain_id) :
             LET params == Payload(version_keys, "", version_vo.layouts,
                                   version_vo.dashboard_options,
                                   version_vo.dashboard_options_schema, NoUser)
             IN dashboards' =
                  [dashboards EXCEPT
                      ![id] = [update_domain_dashboard_by_vo(params, dashboards[id])
                                  EXCEPT !.version = version_vo.version]]
         /\ last_call' = Call("revert_version", id, domain_id, version, NoParams, "OK")
         /\ UNCHANGED <<versions, next_id>>

\* revert_version that copies the options and the schema of the version
\* record but not its layouts
revert_version_without_layouts(id, version, domain_id) ==
    IF ~dashboard_exists(id, domain_id)
       \/ matching_versions(id, version, domain_id) = {}
    THEN /\ last_call' = Call("revert_version", id, domain_id, version, NoParams,
                              "ERROR_NOT_FOUND")
         /\ UNCHANGED <<dashboards, versions, next_id>>
    ELSE /\ \E version_vo \in matching_versions(id, version, domain_id) :
             LET params == Payload({"dashboard_options", "dashboard_options_schema"},
                                   "", << >>, version_vo.dashboard_options,
                                   version_vo.dashboard_options_schema, NoUser)
             IN dashboards' =
                  [dashboards EXCEPT
                      ![id] = update_domain_dashboard_by_vo(params, dashboards[id])]
         /\ last_call' = Call("revert_version", id, domain_id, version, NoParams, "OK")
         /\ UNCHANGED <<versions, next_id>>

revert_version(id, version, domain_id) ==
    IF ~dashboard_exists(id, domain_id)
       \/ matching_versions(id, version, domain_id) = {}
    THEN /\ last_call' = Call("revert_version", id, domain_id, version, NoParams, "ERROR_NOT_FOUND")
         /\ UNCHANGED <<dashboards, versions, next_id>>
    ELSE /\ \E version_vo \in matching_versions(id, version, domain_id) :
             LET params == Payload(version_keys, "", version_vo.layouts,
                                   version_vo.dashboard_options,
                                   version_vo.dashboard_options_schema, NoUser)
             IN dashboards' =
                  [dashboards EXCEPT
                      ![id] = update_domain_dashboard_by_vo(params, dashboards[id])]
         /\ last_call' = Call("revert_version", id, domain_id, version, NoParams, "OK")
         /\ UNCHANGED <<versions, next_id>>

Next ==
    \/ \E p \in CreatePayloads, d \in CreateDomains :
          next_id \in DashIds /\ create(p, d) /\ UNCHANGED <<widget_vars, in_flight>>
    \/ \E id \in DashIds, d \in CreateDomains, p \in UpdatePayloads :
          update(id, d, p) /\ UNCHANGED <<widget_vars, in_flight>>
    \/ \E id \in DashIds, d \in Domains \ CreateDomains :
          update(id, d, NoParams) /\ UNCHANGED <<widget_vars, in_flight>>
    \/ \E id \in DashIds, d \in Domains : get(id, d) /\ UNCHANGED <<widget_vars, in_flight>>
    \/ \E d \in Domains : list(d, NoFilter) /\ UNCHANGED <<widget_vars, in_flight>>
    \/ \E id \in DashIds, v \in AllVersions, d \in Domains :
          delete_version(id, v, d) /\ UNCHANGED <<widget_vars, in_flight>>
    \/ \E id \in DashIds, v \in AllVersions, d \in Domains :
          revert_version(id, v, d) /\ UNCHANGED <<widget_vars, in_flight>>

Spec == Init /\ [][Next]_vars

NextFrame ==
    \/ \E p \in CreatePayloadsFrame, d \in CreateDomains :
          next_id \in FrameIds /\ create(p, d) /\ UNCHANGED <<widget_vars, in_flight>>
    \/ \E id \in FrameIds, d \in Domains, p \in UpdatePayloadsFrame :
          update(id, d, p) /\ UNCHANGED <<widget_vars, in_flight>>
    \/ \E id \in FrameIds, d \in Domains : get(id, d) /\ UNCHANGED <<widget_vars, in_flight>>
    \/ \E d \in Domains, f \in FrameIds \cup {NoFilter} :
          list(d, f) /\ UNCHANGED <<widget_vars, in_flight>>
    \/ \E id \in FrameIds, v \in AllVersions, d \in Domains :
          delete_version(id, v, d) /\ UNCHANGED <<widget_vars, in_flight>>
    \/ \E id \in FrameIds, v \in AllVersions, d \in Domains :
          revert_version(id, v, d) /\ UNCHANGED <<widget_vars, in_flight>>

SpecFrame == Init /\ [][NextFrame]_vars

----------------------------------------------------------------------------
(* PrivateDashboardManager, PrivateWidgetManager, PrivateDataTableManager *)

\* get_private_dashboard(dashboard_id, domain_id, user_id) finds the record
private_dashboard_exists(dashboard_id, caller) ==
    /\ dashboard_id \in DOMAIN WidgetDashboards
    /\ WidgetDashboards[dashboard_id].domain_id = caller.domain_id
    /\ WidgetDashboards[dashboard_id].user_id = caller.user_id

\* get_private_widget(widget_id, domain_id, user_id) finds the record
private_widget_exists(widget_id, caller) ==
    /\ widget_id \in DOMAIN pri_widgets
    /\ pri_widgets[widget_id].domain_id = caller.domain_id
    /\ pri_widgets[widget_id].user_id = caller.user_id

\* get_private_data_table(data_table_id, domain_id, user_id) finds the record
private_data_table_exists(data_table_id, caller) ==
    /\ data_table_id \in DOMAIN pri_data_tables
    /\ pri_data_tables[data_table_id].domain_id = caller.domain_id
    /\ pri_data_tables[data_table_id].user_id = caller.user_id

\* create_private_widget(params.dict()): no data table is bound yet
create_private_widget(dashboard_id, name, caller) ==
    [name |-> name, dashboard_id |-> dashboard_id, data_table_id |-> NoId,
     user_id |-> caller.user_id, domain_id |-> caller.domain_id]

\* update_private_widget_by_vo(params.dict(exclude_unset=True), vo): the
\* fields the request sets are written
update_private_widget_by_vo(name, data_table_id, vo) ==
    [vo EXCEPT !.name = IF name # NoName THEN name ELSE @,
               !.data_table_id = IF data_table_id # NoId THEN data_table_id ELSE @]

\* create_private_data_table(params_dict)
\* state is not in the request: the stored record gets the default
create_private_data_table(widget_id, data_type, caller) ==
    [name |-> "n1", state |-> "AVAILABLE",
     data_type |-> data_type, widget_id |-> widget_id,
     user_id |-> caller.user_id, domain_id |-> caller.domain_id]

\* update_private_data_table_by_vo(params.dict(exclude_unset=True), vo)
update_private_data_table_by_vo(name, vo) ==
    [vo EXCEPT !.name = IF name # NoName THEN name ELSE @]

\* a store without the record of one id
Without(store, id) == [k \in DOMAIN store \ {id} |-> store[k]]

----------------------------------------------------------------------------
(* PrivateWidgetService *)

\* create that does not look at the version of the dashboard
PrivateWidgetService_create_any_version(caller, dashboard_id, name) ==
    IF ~private_dashboard_exists(dashboard_id, caller)
    THEN /\ pri_call' = WidgetCall("create", caller, dashboard_id, NoId, NoId, NoName, "ERROR_NOT_FOUND")
         /\ UNCHANGED <<pri_widgets, pri_data_tables, pri_next>>
    ELSE /\ pri_widgets' = pri_widgets @@
                (pri_next.widget :> create_private_widget(dashboard_id, name, caller))
         /\ pri_next' = [pri_next EXCEPT !.widget = @ + 1]
         /\ pri_call' = WidgetCall("create", caller, dashboard_id, pri_next.widget, NoId, NoName, "OK")
         /\ UNCHANGED pri_data_tables

PrivateWidgetService_create(caller, dashboard_id, name) ==
    IF ~private_dashboard_exists(dashboard_id, caller)
    THEN /\ pri_call' = WidgetCall("create", caller, dashboard_id, NoId, NoId, NoName, "ERROR_NOT_FOUND")
         /\ UNCHANGED <<pri_widgets, pri_data_tables, pri_next>>
    ELSE IF WidgetDashboards[dashboard_id].version = "1.0"
    THEN /\ pri_call' = WidgetCall("create", caller, dashboard_id, NoId, NoId, NoName,
                                   "ERROR_NOT_SUPPORTED_VERSION")
         /\ UNCHANGED <<pri_widgets, pri_data_tables, pri_next>>
    ELSE /\ pri_widgets' = pri_widgets @@
                (pri_next.widget :> create_private_widget(dashboard_id, name, caller))
         /\ pri_next' = [pri_next EXCEPT !.widget = @ + 1]
         /\ pri_call' = WidgetCall("create", caller, dashboard_id, pri_next.widget, NoId, NoName, "OK")
         /\ UNCHANGED pri_data_tables

\* update that does not compare the widget of the data table with the
\* widget being updated
PrivateWidgetService_update_unchecked(caller, widget_id, name, data_table_id) ==
    IF ~private_widget_exists(widget_id, caller)
    THEN /\ pri_call' = WidgetCall("update", caller, NoDashboard, widget_id, data_table_id, name,
                                   "ERROR_NOT_FOUND")
         /\ UNCHANGED <<pri_widgets, pri_data_tables, pri_next>>
    ELSE IF data_table_id # NoId /\ ~private_data_table_exists(data_table_id, caller)
    THEN /\ pri_call' = WidgetCall("update", caller, NoDashboard, widget_id, data_table_id, name,
                                   "ERROR_NOT_FOUND")
         /\ UNCHANGED <<pri_widgets, pri_data_tables, pri_next>>
    ELSE /\ pri_widgets' =
              [pri_widgets EXCEPT ![widget_id] =
                  update_private_widget_by_vo(name, data_table_id, @)]
         /\ pri_call' = WidgetCall("update", caller, NoDashboard, widget_id, data_table_id, name, "OK")
         /\ UNCHANGED <<pri_data_tables, pri_next>>

PrivateWidgetService_update(caller, widget_id, name, data_table_id) ==
    IF ~private_widget_exists(widget_id, caller)
    THEN /\ pri_call' = WidgetCall("update", caller, NoDashboard, widget_id, data_table_id, name,
                                   "ERROR_NOT_FOUND")
         /\ UNCHANGED <<pri_widgets, pri_data_tables, pri_next>>
    ELSE IF data_table_id # NoId /\ ~private_data_table_exists(data_table_id, caller)
    THEN /\ pri_call' = WidgetCall("update", caller, NoDashboard, widget_id, data_table_id, name,
                                   "ERROR_NOT_FOUND")
         /\ UNCHANGED <<pri_widgets, pri_data_tables, pri_next>>
    ELSE IF data_table_id # NoId /\ pri_data_tables[data_table_id].widget_id # widget_id
    THEN /\ pri_call' = WidgetCall("update", caller, NoDashboard, widget_id, data_table_id, name,
                                   "ERROR_INVALID_PARAMETER")
         /\ UNCHANGED <<pri_widgets, pri_data_tables, pri_next>>
    ELSE /\ pri_widgets' =
              [pri_widgets EXCEPT ![widget_id] =
                  update_private_widget_by_vo(name, data_table_id, @)]
         /\ pri_call' = WidgetCall("update", caller, NoDashboard, widget_id, data_table_id, name, "OK")
         /\ UNCHANGED <<pri_data_tables, pri_next>>

\* delete that resolves the widget by widget_id alone
PrivateWidgetService_delete_any_owner(caller, widget_id) ==
    IF widget_id \notin DOMAIN pri_widgets
    THEN /\ pri_call' = WidgetCall("delete", caller, NoDashboard, widget_id, NoId, NoName, "ERROR_NOT_FOUND")
         /\ UNCHANGED <<pri_widgets, pri_data_tables, pri_next>>
    ELSE /\ pri_widgets' = Without(pri_widgets, widget_id)
         /\ pri_call' = WidgetCall("delete", caller, NoDashboard, widget_id, NoId, NoName, "OK")
         /\ UNCHANGED <<pri_data_tables, pri_next>>

PrivateWidgetService_delete(caller, widget_id) ==
    IF ~private_widget_exists(widget_id, caller)
    THEN /\ pri_call' = WidgetCall("delete", caller, NoDashboard, widget_id, NoId, NoName, "ERROR_NOT_FOUND")
         /\ UNCHANGED <<pri_widgets, pri_data_tables, pri_next>>
    ELSE /\ pri_widgets' = Without(pri_widgets, widget_id)
         /\ pri_call' = WidgetCall("delete", caller, NoDashboard, widget_id, NoId, NoName, "OK")
         /\ UNCHANGED <<pri_data_tables, pri_next>>

\* load: the data source and data transformation loaders are outside; a
\* load that reaches them is logged as OK
PrivateWidgetService_load(caller, widget_id) ==
    /\ pri_call' = WidgetCall("load", caller, NoDashboard, widget_id, NoId, NoName,
            IF ~private_widget_exists(widget_id, caller)
            THEN "ERROR_NOT_FOUND"
            ELSE IF pri_widgets[widget_id].data_table_id = NoId
            THEN "ERROR_INVALID_PARAMETER"
            ELSE IF ~private_data_table_exists(pri_widgets[widget_id].data_table_id,
                                               caller)
            THEN "ERROR_NOT_FOUND"
            ELSE "OK")
    /\ UNCHANGED <<pri_widgets, pri_data_tables, pri_next>>

----------------------------------------------------------------------------
(* PrivateDataTableService *)

PrivateDataTableService_add(caller, widget_id) ==
    IF ~private_widget_exists(widget_id, caller)
    THEN /\ pri_call' = WidgetCall("add", caller, NoDashboard, widget_id, NoId, NoName, "ERROR_NOT_FOUND")
         /\ UNCHANGED <<pri_widgets, pri_data_tables, pri_next>>
    ELSE /\ pri_data_tables' = pri_data_tables @@
                (pri_next.data_table :>
                    create_private_data_table(widget_id, "ADDED", caller))
         /\ pri_next' = [pri_next EXCEPT !.data_table = @ + 1]
         /\ pri_call' = WidgetCall("add", caller, NoDashboard, widget_id, pri_next.data_table, NoName, "OK")
         /\ UNCHANGED pri_widgets

PrivateDataTableService_transform(caller, widget_id) ==
    IF ~private_widget_exists(widget_id, caller)
    THEN /\ pri_call' = WidgetCall("transform", caller, NoDashboard, widget_id, NoId, NoName,
                                   "ERROR_NOT_FOUND")
         /\ UNCHANGED <<pri_widgets, pri_data_tables, pri_next>>
    ELSE /\ pri_data_tables' = pri_data_tables @@
                (pri_next.data_table :>
                    create_private_data_table(widget_id, "TRANSFORMED", caller))
         /\ pri_next' = [pri_next EXCEPT !.data_table = @ + 1]
         /\ pri_call' = WidgetCall("transform", caller, NoDashboard, widget_id,
                                   pri_next.data_table, NoName, "OK")
         /\ UNCHANGED pri_widgets

\* update whose params carry state = UNAVAILABLE to the manager
PrivateDataTableService_update_with_state(caller, data_table_id, name) ==
    IF ~private_data_table_exists(data_table_id, caller)
    THEN /\ pri_call' = WidgetCall("update_data_table", caller, NoDashboard, NoId, data_table_id, name,
                                   "ERROR_NOT_FOUND")
         /\ UNCHANGED <<pri_widgets, pri_data_tables, pri_next>>
    ELSE /\ pri_data_tables' =
              [pri_data_tables EXCEPT ![data_table_id] =
                  [update_private_data_table_by_vo(name, @)
                      EXCEPT !.state = "UNAVAILABLE"]]
         /\ pri_call' = WidgetCall("update_data_table", caller, NoDashboard, NoId, data_table_id, name, "OK")
         /\ UNCHANGED <<pri_widgets, pri_next>>

PrivateDataTableService_update(caller, data_table_id, name) ==
    IF ~private_data_table_exists(data_table_id, caller)
    THEN /\ pri_call' = WidgetCall("update_data_table", caller, NoDashboard, NoId, data_table_id, name,
                                   "ERROR_NOT_FOUND")
         /\ UNCHANGED <<pri_widgets, pri_data_tables, pri_next>>
    ELSE /\ pri_data_tables' =
              [pri_data_tables EXCEPT ![data_table_id] =
                  update_private_data_table_by_vo(name, @)]
         /\ pri_call' = WidgetCall("update_data_table", caller, NoDashboard, NoId, data_table_id, name, "OK")
         /\ UNCHANGED <<pri_widgets, pri_next>>

PrivateDataTableService_delete(caller, data_table_id) ==
    IF ~private_data_table_exists(data_table_id, caller)
    THEN /\ pri_call' = WidgetCall("delete_data_table", caller, NoDashboard, NoId, data_table_id, NoName,
                                   "ERROR_NOT_FOUND")
         /\ UNCHANGED <<pri_widgets, pri_data_tables, pri_next>>
    ELSE /\ pri_data_tables' = Without(pri_data_tables, data_table_id)
         /\ pri_call' = WidgetCall("delete_data_table", caller, NoDashboard, NoId, data_table_id, NoName, "OK")
         /\ UNCHANGED <<pri_widgets, pri_next>>

----------------------------------------------------------------------------
(* PublicDashboardManager, PublicWidgetManager, PublicDataTableManager *)

\* get_public_dashboard(dashboard_id, domain_id, workspace_id, user_projects)
public_dashboard_exists(dashboard_id, caller) ==
    /\ dashboard_id \in DOMAIN WidgetDashboards
    /\ WidgetDashboards[dashboard_id].domain_id = caller.domain_id
    /\ WidgetDashboards[dashboard_id].workspace_id = caller.workspace_id

\* get_public_widget(widget_id, domain_id, workspace_id, user_projects)
public_widget_exists(widget_id, caller) ==
    /\ widget_id \in DOMAIN pub_widgets
    /\ pub_widgets[widget_id].domain_id = caller.domain_id
    /\ pub_widgets[widget_id].workspace_id = caller.workspace_id

\* get_public_data_table(data_table_id, domain_id, workspace_id, user_projects)
public_data_table_exists(data_table_id, caller) ==
    /\ data_table_id \in DOMAIN pub_data_tables
    /\ pub_data_tables[data_table_id].domain_id = caller.domain_id
    /\ pub_data_tables[data_table_id].workspace_id = caller.workspace_id

\* create_public_widget(params.dict())
create_public_widget(dashboard_id, name, caller) ==
    [name |-> name, dashboard_id |-> dashboard_id, data_table_id |-> NoId,
     workspace_id |-> caller.workspace_id, domain_id |-> caller.domain_id]

\* update_public_widget_by_vo(params.dict(exclude_unset=True), vo)
update_public_widget_by_vo(name, data_table_id, vo) ==
    [vo EXCEPT !.name = IF name # NoName THEN name ELSE @,
               !.data_table_id = IF data_table_id # NoId THEN data_table_id ELSE @]

\* create_public_data_table(params_dict)
create_public_data_table(widget_id, data_type, caller) ==
    [name |-> "n1", data_type |-> data_type, widget_id |-> widget_id,
     workspace_id |-> caller.workspace_id, domain_id |-> caller.domain_id]

\* update_public_data_table_by_vo(params.dict(exclude_unset=True), vo)
update_public_data_table_by_vo(name, vo) ==
    [vo EXCEPT !.name = IF name # NoName THEN name ELSE @]

----------------------------------------------------------------------------
(* PublicWidgetService *)

PublicWidgetService_create(caller, dashboard_id, name) ==
    IF ~public_dashboard_exists(dashboard_id, caller)
    THEN /\ pub_call' = WidgetCall("create", caller, dashboard_id, NoId, NoId, NoName, "ERROR_NOT_FOUND")
         /\ UNCHANGED <<pub_widgets, pub_data_tables, pub_next>>
    ELSE /\ pub_widgets' = pub_widgets @@
                (pub_next.widget :> create_public_widget(dashboard_id, name, caller))
         /\ pub_next' = [pub_next EXCEPT !.widget = @ + 1]
         /\ pub_call' = WidgetCall("create", caller, dashboard_id, pub_next.widget, NoId, NoName, "OK")
         /\ UNCHANGED pub_data_tables

PublicWidgetService_update(caller, widget_id, name, data_table_id) ==
    IF ~public_widget_exists(widget_id, caller)
    THEN /\ pub_call' = WidgetCall("update", caller, NoDashboard, widget_id, data_table_id, name,
                                   "ERROR_NOT_FOUND")
         /\ UNCHANGED <<pub_widgets, pub_data_tables, pub_next>>
    ELSE /\ pub_widgets' =
              [pub_widgets EXCEPT ![widget_id] =
                  update_public_widget_by_vo(name, data_table_id, @)]
         /\ pub_call' = WidgetCall("update", caller, NoDashboard, widget_id, data_table_id, name, "OK")
         /\ UNCHANGED <<pub_data_tables, pub_next>>

PublicWidgetService_delete(caller, widget_id) ==
    IF ~public_widget_exists(widget_id, caller)
    THEN /\ pub_call' = WidgetCall("delete", caller, NoDashboard, widget_id, NoId, NoName, "ERROR_NOT_FOUND")
         /\ UNCHANGED <<pub_widgets, pub_data_tables, pub_next>>
    ELSE /\ pub_widgets' = Without(pub_widgets, widget_id)
         /\ pub_call' = WidgetCall("delete", caller, NoDashboard, widget_id, NoId, NoName, "OK")
         /\ UNCHANGED <<pub_data_tables, pub_next>>

\* load: the widget is looked up and an empty result is returned
PublicWidgetService_load(caller, widget_id) ==
    /\ pub_call' = WidgetCall("load", caller, NoDashboard, widget_id, NoId, NoName,
            IF ~public_widget_exists(widget_id, caller)
            THEN "ERROR_NOT_FOUND" ELSE "OK")
    /\ UNCHANGED <<pub_widgets, pub_data_tables, pub_next>>

----------------------------------------------------------------------------
(* PublicDataTableService *)

\* add that stores data_type ADDED, as the private add does
PublicDataTableService_add_as_added(caller, widget_id) ==
    IF ~public_widget_exists(widget_id, caller)
    THEN /\ pub_call' = WidgetCall("add", caller, NoDashboard, widget_id, NoId, NoName, "ERROR_NOT_FOUND")
         /\ UNCHANGED <<pub_widgets, pub_data_tables, pub_next>>
    ELSE /\ pub_data_tables' = pub_data_tables @@
                (pub_next.data_table :>
                    create_public_data_table(widget_id, "ADDED", caller))
         /\ pub_next' = [pub_next EXCEPT !.data_table = @ + 1]
         /\ pub_call' = WidgetCall("add", caller, NoDashboard, widget_id, pub_next.data_table, NoName, "OK")
         /\ UNCHANGED pub_widgets

PublicDataTableService_add(caller, widget_id) ==
    IF ~public_widget_exists(widget_id, caller)
    THEN /\ pub_call' = WidgetCall("add", caller, NoDashboard, widget_id, NoId, NoName, "ERROR_NOT_FOUND")
         /\ UNCHANGED <<pub_widgets, pub_data_tables, pub_next>>
    ELSE /\ pub_data_tables' = pub_data_tables @@
                (pub_next.data_table :>
                    create_public_data_table(widget_id, "TRANSFORMED", caller))
         /\ pub_next' = [pub_next EXCEPT !.data_table = @ + 1]
         /\ pub_call' = WidgetCall("add", caller, NoDashboard, widget_id, pub_next.data_table, NoName, "OK")
         /\ UNCHANGED pub_widgets

PublicDataTableService_transform(caller, widget_id) ==
    IF ~public_widget_exists(widget_id, caller)
    THEN /\ pub_call' = WidgetCall("transform", caller, NoDashboard, widget_id, NoId, NoName,
                                   "ERROR_NOT_FOUND")
         /\ UNCHANGED <<pub_widgets, pub_data_tables, pub_next>>
    ELSE /\ pub_data_tables' = pub_data_tables @@
                (pub_next.data_table :>
                    create_public_data_table(widget_id, "TRANSFORMED", caller))
         /\ pub_next' = [pub_next EXCEPT !.data_table = @ + 1]
         /\ pub_call' = WidgetCall("transform", caller, NoDashboard, widget_id,
                                   pub_next.data_table, NoName, "OK")
         /\ UNCHANGED pub_widgets

PublicDataTableService_update(caller, data_table_id, name) ==
    IF ~public_data_table_exists(data_table_id, caller)
    THEN /\ pub_call' = WidgetCall("update_data_table", caller, NoDashboard, NoId, data_table_id, name,
                                   "ERROR_NOT_FOUND")
         /\ UNCHANGED <<pub_widgets, pub_data_tables, pub_next>>
    ELSE /\ pub_data_tables' =
              [pub_data_tables EXCEPT ![data_table_id] =
                  update_public_data_table_by_vo(name, @)]
         /\ pub_call' = WidgetCall("update_data_table", caller, NoDashboard, NoId, data_table_id, name, "OK")
         /\ UNCHANGED <<pub_widgets, pub_next>>

PublicDataTableService_delete(caller, data_table_id) ==
    IF ~public_data_table_exists(data_table_id, caller)
    THEN /\ pub_call' = WidgetCall("delete_data_table", caller, NoDashboard, NoId, data_table_id, NoName,
                                   "ERROR_NOT_FOUND")
         /\ UNCHANGED <<pub_widgets, pub_data_tables, pub_next>>
    ELSE /\ pub_data_tables' = Without(pub_data_tables, data_table_id)
         /\ pub_call' = WidgetCall("delete_data_table", caller, NoDashboard, NoId, data_table_id, NoName, "OK")
         /\ UNCHANGED <<pub_widgets, pub_next>>

----------------------------------------------------------------------------
(* Specifications of the widget and data table services *)

\* SpecWidget: the private widget and data table services, every request
\* of both callers.
NextWidget ==
    \/ \E c \in Callers, d \in DOMAIN WidgetDashboards :
          /\ pri_next.widget \in WidgetIds
          /\ PrivateWidgetService_create(c, d, "n1")
          /\ UNCHANGED <<dashboard_vars, pub_vars>>
    \/ \E c \in Callers, w \in WidgetIds, n \in {NoName, "n2"},
          t \in DataTableIds \cup {NoId} :
          /\ PrivateWidgetService_update(c, w, n, t)
          /\ UNCHANGED <<dashboard_vars, pub_vars>>
    \/ \E c \in Callers, w \in WidgetIds :
          /\ PrivateWidgetService_delete(c, w)
          /\ UNCHANGED <<dashboard_vars, pub_vars>>
    \/ \E c \in Callers, w \in WidgetIds :
          /\ PrivateWidgetService_load(c, w)
          /\ UNCHANGED <<dashboard_vars, pub_vars>>
    \/ \E c \in Callers, w \in WidgetIds :
          /\ pri_next.data_table \in DataTableIds
          /\ PrivateDataTableService_add(c, w)
          /\ UNCHANGED <<dashboard_vars, pub_vars>>
    \/ \E c \in Callers, w \in WidgetIds :
          /\ pri_next.data_table \in DataTableIds
          /\ PrivateDataTableService_transform(c, w)
          /\ UNCHANGED <<dashboard_vars, pub_vars>>
    \/ \E c \in Callers, t \in DataTableIds :
          /\ PrivateDataTableService_update(c, t, "n2")
          /\ UNCHANGED <<dashboard_vars, pub_vars>>
    \/ \E c \in Callers, t \in DataTableIds :
          /\ PrivateDataTableService_delete(c, t)
          /\ UNCHANGED <<dashboard_vars, pub_vars>>

SpecWidget == Init /\ [][NextWidget]_vars

\* SpecPair: the private and the public services side by side.  They share
\* no store, so the order in which requests reach the one and the other
\* does not matter to either.  Every request is sent to both, with the same
\* caller and the same ids: each service sees every sequence of its own
\* requests, and the two outcomes of one request can be compared.  Updates
\* carry no name here.
NextPair ==
    \/ \E c \in Callers, d \in DOMAIN WidgetDashboards :
          /\ pri_next.widget \in WidgetIds /\ pub_next.widget \in WidgetIds
          /\ PrivateWidgetService_create(c, d, "n1")
          /\ PublicWidgetService_create(c, d, "n1")
          /\ UNCHANGED dashboard_vars
    \/ \E c \in Callers, w \in WidgetIds, t \in DataTableIds \cup {NoId} :
          /\ PrivateWidgetService_update(c, w, NoName, t)
          /\ PublicWidgetService_update(c, w, NoName, t)
          /\ UNCHANGED dashboard_vars
    \/ \E c \in Callers, w \in WidgetIds :
          /\ PrivateWidgetService_delete(c, w)
          /\ PublicWidgetService_delete(c, w)
          /\ UNCHANGED dashboard_vars
    \/ \E c \in Callers, w \in WidgetIds :
          /\ PrivateWidgetService_load(c, w)
          /\ PublicWidgetService_load(c, w)
          /\ UNCHANGED dashboard_vars
    \/ \E c \in Callers, w \in WidgetIds :
          /\ pri_next.data_table \in DataTableIds
          /\ pub_next.data_table \in DataTableIds
          /\ PrivateDataTableService_add(c, w)
          /\ PublicDataTableService_add(c, w)
          /\ UNCHANGED dashboard_vars
    \/ \E c \in Callers, w \in WidgetIds :
          /\ pri_next.data_table \in DataTableIds
          /\ pub_next.data_table \in DataTableIds
          /\ PrivateDataTableService_transform(c, w)
          /\ PublicDataTableService_transform(c, w)
          /\ UNCHANGED dashboard_vars
    \/ \E c \in Callers, t \in DataTableIds :
          /\ PrivateDataTableService_update(c, t, NoName)
          /\ PublicDataTableService_update(c, t, NoName)
          /\ UNCHANGED dashboard_vars
    \/ \E c \in Callers, t \in DataTableIds :
          /\ PrivateDataTableService_delete(c, t)
          /\ PublicDataTableService_delete(c, t)
          /\ UNCHANGED dashboard_vars

SpecPair == Init /\ [][NextPair]_vars

----------------------------------------------------------------------------
(* Deleting a dashboard *)

\* SpecDelete: the dashboards of SpecFrame with delete and get_version,
\* next to a private widget and its data table.
NextDelete ==
    \/ \E p \in CreatePayloadsFrame, d \in CreateDomains :
          next_id \in FrameIds /\ create(p, d) /\ UNCHANGED <<widget_vars, in_flight>>
    \/ \E id \in FrameIds, d \in CreateDomains, p \in UpdatePayloadsFrame :
          update(id, d, p) /\ UNCHANGED <<widget_vars, in_flight>>
    \/ \E id \in FrameIds, d \in Domains : delete(id, d)
    \/ \E id \in FrameIds, v \in AllVersions, d \in CreateDomains :
          get_version(id, v, d) /\ UNCHANGED <<widget_vars, in_flight>>
    \/ \E id \in FrameIds, v \in AllVersions, d \in CreateDomains :
          delete_version(id, v, d) /\ UNCHANGED <<widget_vars, in_flight>>
    \/ \E id \in FrameIds, v \in AllVersions, d \in CreateDomains :
          revert_version(id, v, d) /\ UNCHANGED <<widget_vars, in_flight>>
    \/ /\ pri_next.widget = 1
       /\ PrivateWidgetService_create(Owner, "dash-2", "n1")
       /\ UNCHANGED <<dashboard_vars, pub_vars>>
    \/ /\ pri_next.data_table = 1
       /\ PrivateDataTableService_add(Owner, 1)
       /\ UNCHANGED <<dashboard_vars, pub_vars>>

SpecDelete == Init /\ [][NextDelete]_vars

----------------------------------------------------------------------------
(* update, one manager call at a time *)

MaxRaceVersion == 3   \* cap of the version counter in SpecCrash and SpecRace

\* the layouts two transactions write over the created ones
RaceLayouts == {<<"w1">>, <<"w2">>}
UpdatePayloadsRace ==
    {Payload({"layouts"}, "", l, {}, {}, NoUser) : l \in RaceLayouts}

\* get_domain_dashboard: the transaction holds the record it got
update_load(t, id, domain_id, params) ==
    /\ in_flight[t].pc \in {"idle", "done", "interrupted"}
    /\ IF ~dashboard_exists(id, domain_id)
       THEN /\ last_call' = Call("update", id, domain_id, 0, NoParams, "ERROR_NOT_FOUND")
            /\ in_flight' = [in_flight EXCEPT ![t] = Idle]
            /\ UNCHANGED <<dashboards, versions, next_id>>
       ELSE /\ in_flight' = [in_flight EXCEPT
                                ![t] = InFlight("loaded", id, domain_id, params,
                                                dashboards[id], FALSE)]
            /\ UNCHANGED <<dashboards, versions, next_id, last_call>>

\* a bump whose version record is written before the increment
update_bump_snapshot_first(t) ==
    LET f == in_flight[t]
    IN /\ f.pc = "loaded"
       /\ IF _check_version_change(f.vo, f.params)
          THEN \E base \in {f.vo, dashboards[f.id]} :
                  LET bumped == increase_version(base)
                  IN /\ base.version < MaxRaceVersion
                     /\ dashboards' =
                          [dashboards EXCEPT ![f.id].version = bumped.version]
                     /\ versions' =
                          create_version_by_domain_dashboard_vo(versions, f.id, base)
                     /\ in_flight' =
                          [in_flight EXCEPT ![t].pc = "bumped", ![t].changed = TRUE]
                     /\ UNCHANGED <<next_id, last_call>>
          ELSE /\ in_flight' = [in_flight EXCEPT ![t].pc = "bumped"]
               /\ UNCHANGED <<dashboards, versions, next_id, last_call>>

\* _check_version_change on the held record, then increase_version and
\* create_version_by_domain_dashboard_vo.  increase_version either
\* increments the stored counter and reads the record back, or writes the
\* held counter plus one; the version record is a copy of the record the
\* transaction holds after it.
update_bump(t) ==
    LET f == in_flight[t]
    IN /\ f.pc = "loaded"
       /\ IF _check_version_change(f.vo, f.params)
          THEN \E base \in {f.vo, dashboards[f.id]} :
                  LET bumped == increase_version(base)
                  IN /\ base.version < MaxRaceVersion
                     /\ dashboards' =
                          [dashboards EXCEPT ![f.id].version = bumped.version]
                     /\ versions' =
                          create_version_by_domain_dashboard_vo(versions, f.id, bumped)
                     /\ in_flight' =
                          [in_flight EXCEPT ![t].pc = "bumped", ![t].changed = TRUE]
                     /\ UNCHANGED <<next_id, last_call>>
          ELSE /\ in_flight' = [in_flight EXCEPT ![t].pc = "bumped"]
               /\ UNCHANGED <<dashboards, versions, next_id, last_call>>

\* update_domain_dashboard_by_vo: the keys of params are written
update_apply(t) ==
    LET f == in_flight[t]
    IN /\ f.pc = "bumped"
       /\ dashboards' =
            [dashboards EXCEPT
                ![f.id] = update_domain_dashboard_by_vo(f.params, @)]
       /\ last_call' = Call("update", f.id, f.domain_id, 0, f.params, "OK")
       /\ in_flight' = [in_flight EXCEPT ![t].pc = "done"]
       /\ UNCHANGED <<versions, next_id>>

\* an interruption that takes the version record and the increment back
update_interrupt_undone(t) ==
    LET f == in_flight[t]
    IN /\ f.pc = "bumped"
       /\ f.changed
       /\ last_call' = Call("update", f.id, f.domain_id, 0, f.params, "INTERRUPTED")
       /\ in_flight' = [in_flight EXCEPT ![t].pc = "interrupted"]
       /\ dashboards' = [dashboards EXCEPT ![f.id].version = f.vo.version]
       /\ versions' = [r \in {q \in BagToSet(versions) :
                                 q.version # dashboards[f.id].version}
                          |-> versions[r]]
       /\ UNCHANGED next_id

\* the request ends between create_version_by_domain_dashboard_vo and
\* update_domain_dashboard_by_vo: nothing is undone
update_interrupt(t) ==
    LET f == in_flight[t]
    IN /\ f.pc = "bumped"
       /\ f.changed
       /\ last_call' = Call("update", f.id, f.domain_id, 0, f.params, "INTERRUPTED")
       /\ in_flight' = [in_flight EXCEPT ![t].pc = "interrupted"]
       /\ UNCHANGED <<dashboards, versions, next_id>>

\* SpecCrash: one transaction at a time updates one dashboard and may be
\* cut off before the last manager call; get and get_version read what is
\* left, delete_version and revert_version are served between two updates.
NextCrash ==
    \/ \E p \in CreatePayloadsFrame, d \in CreateDomains :
          /\ next_id \in DashIds
          /\ create(p, d)
          /\ UNCHANGED <<widget_vars, in_flight>>
    \/ \E id \in DashIds, d \in Domains, p \in UpdatePayloadsRace :
          update_load("t1", id, d, p) /\ UNCHANGED <<pri_vars, pub_vars>>
    \/ update_bump("t1") /\ UNCHANGED <<pri_vars, pub_vars>>
    \/ update_apply("t1") /\ UNCHANGED <<pri_vars, pub_vars>>
    \/ update_interrupt("t1") /\ UNCHANGED <<pri_vars, pub_vars>>
    \/ \E id \in DashIds, d \in CreateDomains :
          get(id, d) /\ UNCHANGED <<widget_vars, in_flight>>
    \/ \E id \in DashIds, v \in 1..MaxRaceVersion, d \in CreateDomains :
          get_version(id, v, d) /\ UNCHANGED <<widget_vars, in_flight>>
    \/ \E id \in DashIds, v \in 1..MaxRaceVersion, d \in CreateDomains :
          /\ in_flight["t1"].pc \notin {"loaded", "bumped"}
          /\ delete_version(id, v, d)
          /\ UNCHANGED <<widget_vars, in_flight>>
    \/ \E id \in DashIds, v \in 1..MaxRaceVersion, d \in CreateDomains :
          /\ in_flight["t1"].pc \notin {"loaded", "bumped"}
          /\ revert_version(id, v, d)
          /\ UNCHANGED <<widget_vars, in_flight>>

SpecCrash == Init /\ [][NextCrash]_vars

\* SpecRace: two transactions update one dashboard, their manager calls
\* interleaved in every order.
NextRace ==
    \/ \E p \in CreatePayloadsFrame, d \in CreateDomains :
          /\ next_id \in DashIds
          /\ create(p, d)
          /\ UNCHANGED <<widget_vars, in_flight>>
    \/ \E t \in Transactions, id \in DashIds, d \in Domains,
          p \in UpdatePayloadsRace :
          update_load(t, id, d, p) /\ UNCHANGED <<pri_vars, pub_vars>>
    \/ \E t \in Transactions : update_bump(t) /\ UNCHANGED <<pri_vars, pub_vars>>
    \/ \E t \in Transactions : update_apply(t) /\ UNCHANGED <<pri_vars, pub_vars>>

SpecRace == Init /\ [][NextRace]_vars

----------------------------------------------------------------------------
(* Data tables of one private widget *)

\* load: looks the data table up and returns no rows
PrivateDataTableService_load(caller, data_table_id) ==
    /\ pri_call' = WidgetCall("load_data_table", caller, NoDashboard, NoId, data_table_id, NoName,
                              IF private_data_table_exists(data_table_id, caller)
                              THEN "OK" ELSE "ERROR_NOT_FOUND")
    /\ UNCHANGED <<pri_widgets, pri_data_tables, pri_next>>

\* get: looks the data table up and returns it
PrivateDataTableService_get(caller, data_table_id) ==
    /\ pri_call' = WidgetCall("get_data_table", caller, NoDashboard, NoId, data_table_id, NoName,
                              IF private_data_table_exists(data_table_id, caller)
                              THEN "OK" ELSE "ERROR_NOT_FOUND")
    /\ UNCHANGED <<pri_widgets, pri_data_tables, pri_next>>

\* list: the data tables of a widget of the caller
PrivateDataTableService_list(caller, widget_id) ==
    /\ pri_call' = WidgetCall("list_data_tables", caller, NoDashboard, widget_id, NoId, NoName, "OK")
    /\ UNCHANGED <<pri_widgets, pri_data_tables, pri_next>>

\* SpecDataTable: every PrivateDataTableService method, for the data tables
\* of the widgets of one dashboard.
NextDataTable ==
    \/ /\ pri_next.widget \in WidgetIds
       /\ PrivateWidgetService_create(Owner, "dash-2", "n1")
       /\ UNCHANGED <<dashboard_vars, pub_vars>>
    \/ \E c \in Callers, w \in WidgetIds :
          /\ pri_next.data_table \in DataTableIds
          /\ PrivateDataTableService_add(c, w)
          /\ UNCHANGED <<dashboard_vars, pub_vars>>
    \/ \E c \in Callers, w \in WidgetIds :
          /\ pri_next.data_table \in DataTableIds
          /\ PrivateDataTableService_transform(c, w)
          /\ UNCHANGED <<dashboard_vars, pub_vars>>
    \/ \E c \in Callers, t \in DataTableIds, n \in {NoName, "n2"} :
          /\ PrivateDataTableService_update(c, t, n)
          /\ UNCHANGED <<dashboard_vars, pub_vars>>
    \/ \E c \in Callers, t \in DataTableIds :
          /\ PrivateDataTableService_delete(c, t)
          /\ UNCHANGED <<dashboard_vars, pub_vars>>
    \/ \E c \in Callers, t \in DataTableIds :
          /\ PrivateDataTableService_load(c, t)
          /\ UNCHANGED <<dashboard_vars, pub_vars>>
    \/ \E c \in Callers, t \in DataTableIds :
          /\ PrivateDataTableService_get(c, t)
          /\ UNCHANGED <<dashboard_vars, pub_vars>>
    \/ \E c \in Callers, w \in WidgetIds :
          /\ PrivateDataTableService_list(c, w)
          /\ UNCHANGED <<dashboard_vars, pub_vars>>

SpecDataTable == Init /\ [][NextDataTable]_vars

----------------------------------------------------------------------------
(* Ownership *)

\* SpecOwner: one dashboard, one private widget and one private data
\* table, each asked for by its owner and by a caller with other ownership
\* ids (another domain for the dashboard, another user for the widget and
\* the data table).
NextOwner ==
    \/ \E p \in CreatePayloadsFrame, d \in CreateDomains :
          next_id \in DashIds /\ create(p, d) /\ UNCHANGED <<widget_vars, in_flight>>
    \/ \E id \in DashIds, d \in Domains, p \in UpdatePayloadsFrame :
          update(id, d, p) /\ UNCHANGED <<widget_vars, in_flight>>
    \/ \E id \in DashIds, d \in Domains : get(id, d) /\ UNCHANGED <<widget_vars, in_flight>>
    \/ \E id \in DashIds, d \in Domains : delete(id, d)
    \/ \E id \in DashIds, v \in AllVersions, d \in Domains :
          get_version(id, v, d) /\ UNCHANGED <<widget_vars, in_flight>>
    \/ \E id \in DashIds, v \in AllVersions, d \in Domains :
          delete_version(id, v, d) /\ UNCHANGED <<widget_vars, in_flight>>
    \/ \E id \in DashIds, v \in AllVersions, d \in Domains :
          revert_version(id, v, d) /\ UNCHANGED <<widget_vars, in_flight>>
    \/ \E c \in Callers, d \in DOMAIN WidgetDashboards :
          /\ pri_next.widget = 1
          /\ PrivateWidgetService_create(c, d, "n1")
          /\ UNCHANGED <<dashboard_vars, pub_vars>>
    \/ \E c \in Callers, n \in {NoName, "n2"}, t \in {NoId, 1} :
          /\ PrivateWidgetService_update(c, 1, n, t)
          /\ UNCHANGED <<dashboard_vars, pub_vars>>
    \/ \E c \in Callers :
          /\ PrivateWidgetService_delete(c, 1)
          /\ UNCHANGED <<dashboard_vars, pub_vars>>
    \/ \E c \in Callers :
          /\ PrivateWidgetService_load(c, 1)
          /\ UNCHANGED <<dashboard_vars, pub_vars>>
    \/ \E c \in Callers :
          /\ pri_next.data_table = 1
          /\ PrivateDataTableService_add(c, 1)
          /\ UNCHANGED <<dashboard_vars, pub_vars>>
    \/ \E c \in Callers :
          /\ PrivateDataTableService_update(c, 1, "n2")
          /\ UNCHANGED <<dashboard_vars, pub_vars>>
    \/ \E c \in Callers :
          /\ PrivateDataTableService_delete(c, 1)
          /\ UNCHANGED <<dashboard_vars, pub_vars>>

SpecOwner == Init /\ [][NextOwner]_vars

----------------------------------------------------------------------------
(* Properties *)

\* the version records of one dashboard
RecordsOf(id) == {r \in BagToSet(versions) : r.domain_dashboard_id = id}

\* a versioned key the payload carries with a value other than the stored one
DiffersFromStored(vo, params) ==
    \/ "layouts" \in params.keys /\ params.layouts # vo.layouts
    \/ "dashboard_options" \in params.keys
         /\ params.dashboard_options # vo.dashboard_options
    \/ "dashboard_options_schema" \in params.keys
         /\ params.dashboard_options_schema # vo.dashboard_options_schema

\* the step just taken served `op` and it went through
Served(op) == last_call'.op = op /\ last_call'.result = "OK"

\* C1: an update whose versioned keys, where present, all carry the stored
\* values (or that carries none of them) leaves the version counter and the
\* version store as they were, and still writes the name it carries.
C1_UnchangedUpdateKeepsVersion ==
    [][(Served("update") /\ ~DiffersFromStored(dashboards[last_call'.id],
                                               last_call'.params))
       => /\ dashboards'[last_call'.id].version = dashboards[last_call'.id].version
          /\ versions' = versions
          /\ "name" \in last_call'.params.keys
               => dashboards'[last_call'.id].name = last_call'.params.name
          /\ "name" \notin last_call'.params.keys
               => dashboards'[last_call'.id].name = dashboards[last_call'.id].name
      ]_vars

\* C1 witness: an update carrying just a name and a non-empty layouts went
\* through on a dashboard that is still at version 1 with no version record,
\* so the layouts it carried were the stored ones; the name it carried is
\* stored.
C1_Witness ==
    /\ last_call.op = "update" /\ last_call.result = "OK"
    /\ last_call.params.keys = {"name", "layouts"}
    /\ last_call.params.layouts # << >>
    /\ last_call.params.name = "n2"
    /\ dashboards[last_call.id].name = "n2"
    /\ dashboards[last_call.id].version = 1
    /\ RecordsOf(last_call.id) = {}

\* C2: an update that carries at least one versioned key with a value other
\* than the stored one raises the version by exactly 1 and adds exactly one
\* version record, which holds the values stored before the update.
C2_AnyChangedKeyBumps ==
    [][(Served("update") /\ DiffersFromStored(dashboards[last_call'.id],
                                              last_call'.params))
       => /\ dashboards'[last_call'.id].version =
                dashboards[last_call'.id].version + 1
          /\ \E n \in 1..(MaxVersion + 1) :
                versions' = versions (+) SetToBag(
                    {[version_of(last_call'.id, dashboards[last_call'.id])
                         EXCEPT !.version = n]})
      ]_vars

\* C3: a revert_version that goes through raises the version counter by one
\* and adds a version record, as an update does.  Stated for the reverts an
\* update carrying the same values would count as a change: the record has
\* non-empty layouts other than the stored ones.
C3_RevertBumpsVersion ==
    [][(/\ Served("revert_version")
        /\ \E r \in matching_versions(last_call'.id, last_call'.version,
                                      last_call'.domain_id) :
              r.layouts # << >> /\ r.layouts # dashboards[last_call'.id].layouts)
       => /\ dashboards'[last_call'.id].version =
                dashboards[last_call'.id].version + 1
          /\ BagCardinality(versions') = BagCardinality(versions) + 1
      ]_vars

C5_LatestVersionNotDeleted ==
    [][(/\ last_call'.op = "delete_version"
        /\ dashboard_exists(last_call'.id, last_call'.domain_id)
        /\ dashboards[last_call'.id].version = last_call'.version)
       => /\ last_call'.result = "ERROR_LATEST_VERSION"
          /\ dashboards' = dashboards
          /\ versions' = versions
      ]_vars

\* C5 witness: delete_version was refused for the current version number
\* while a version record with that number is stored.
C5_Witness ==
    /\ last_call.op = "delete_version"
    /\ last_call.result = "ERROR_LATEST_VERSION"
    /\ last_call.version = dashboards[last_call.id].version
    /\ matching_versions(last_call.id, last_call.version, last_call.domain_id) # {}

\* C6: on a dashboard whose version is above 1, delete_version with any
\* older version number goes through and removes exactly the one record with
\* that number; the dashboards and the other records stay.
C6_OlderVersionDeleted ==
    [][(/\ last_call'.op = "delete_version"
        /\ dashboard_exists(last_call'.id, last_call'.domain_id)
        /\ last_call'.version < dashboards[last_call'.id].version)
       => /\ last_call'.result = "OK"
          /\ \E r \in matching_versions(last_call'.id, last_call'.version,
                                        last_call'.domain_id) :
                versions' = versions (-) SetToBag({r})
          /\ dashboards' = dashboards
      ]_vars

\* C7: the version records of a dashboard carry pairwise distinct version
\* numbers, none above the dashboard's current version.
C7_VersionNumbersDistinctAndBounded ==
    \A id \in DOMAIN dashboards :
        \A r \in RecordsOf(id) :
            /\ CopiesIn(r, versions) = 1
            /\ r.version <= dashboards[id].version
            /\ \A q \in RecordsOf(id) : q.version = r.version => q = r

\* C7 witness: two dashboards each have a record numbered 1, and one of them
\* has a second record, numbered 2.
C7_Witness ==
    /\ \A id \in FrameIds :
          id \in DOMAIN dashboards /\ \E r \in RecordsOf(id) : r.version = 1
    /\ \E id \in DOMAIN dashboards :
          /\ dashboards[id].version = 2
          /\ \E r \in RecordsOf(id) : r.version = 2

\* C8 (as claimed): no version record carries the current version number of
\* its dashboard together with the dashboard's current values.
C8_NoRecordOfCurrentVersion ==
    \A id \in DOMAIN dashboards :
        \A r \in RecordsOf(id) :
            ~ /\ r.version = dashboards[id].version
              /\ r.layouts = dashboards[id].layouts
              /\ r.dashboard_options = dashboards[id].dashboard_options
              /\ r.dashboard_options_schema = dashboards[id].dashboard_options_schema

\* C8 (amended): the version store grows only in two ways.  A create whose
\* payload has all three versioned keys stores record 1 with the created
\* values, the snapshot of the current version.  An update that raises the
\* version stores one record with the values held before the update, under
\* the new version number.
C8_RecordsWrittenOnCreateAndBump ==
    [][BagCardinality(versions') > BagCardinality(versions)
       => \/ /\ Served("create")
             /\ version_keys \subseteq last_call'.params.keys
             /\ dashboards'[last_call'.id].version = 1
             /\ versions' = versions (+) SetToBag(
                   {version_of(last_call'.id, dashboards'[last_call'.id])})
          \/ /\ Served("update")
             /\ dashboards'[last_call'.id].version =
                   dashboards[last_call'.id].version + 1
             /\ versions' = versions (+) SetToBag(
                   {[version_of(last_call'.id, dashboards[last_call'.id])
                        EXCEPT !.version = dashboards'[last_call'.id].version]})
      ]_vars

\* C8 witness: right after an update that raised the version to 2, record 2
\* holds layouts other than the current ones, next to record 1 written by
\* the create.
C8_Witness ==
    /\ last_call.op = "update" /\ last_call.result = "OK"
    /\ dashboards[last_call.id].version = 2
    /\ \E r1, r2 \in RecordsOf(last_call.id) :
          /\ r1.version = 1 /\ r2.version = 2
          /\ r2.layouts # dashboards[last_call.id].layouts

\* C9: a created dashboard starts at version 1, and no step lowers the
\* version of a stored dashboard or raises it by more than one.
C9_VersionMonotonic ==
    [][/\ \A id \in DOMAIN dashboards' \ DOMAIN dashboards :
             dashboards'[id].version = 1
       /\ \A id \in DOMAIN dashboards \cap DOMAIN dashboards' :
             \/ dashboards'[id].version = dashboards[id].version
             \/ dashboards'[id].version = dashboards[id].version + 1
      ]_vars

\* C9 witness: a revert to version 1 went through on a dashboard at version
\* 2, and the dashboard is still at version 2.
C9_Witness ==
    /\ last_call.op = "revert_version" /\ last_call.result = "OK"
    /\ last_call.version = 1
    /\ dashboards[last_call.id].version = 2

\* C10: a create that goes through stores a dashboard with version 1; it
\* adds one version record, numbered 1, when the payload has all three keys
\* layouts, dashboard_options and dashboard_options_schema, and none when
\* one of them is missing.
C10_CreateSnapshotsIffAllKeys ==
    [][Served("create")
       => /\ last_call'.id \notin DOMAIN dashboards
          /\ dashboards'[last_call'.id].version = 1
          /\ IF version_keys \subseteq last_call'.params.keys
             THEN /\ versions' = versions (+) SetToBag(
                        {version_of(last_call'.id, dashboards'[last_call'.id])})
                  /\ version_of(last_call'.id, dashboards'[last_call'.id]).version = 1
             ELSE versions' = versions
      ]_vars

\* C10 witness: a create carrying two of the three versioned keys went
\* through and left the version store empty.
C10_Witness ==
    /\ last_call.op = "create" /\ last_call.result = "OK"
    /\ last_call.params.keys \cap version_keys = {"layouts", "dashboard_options"}
    /\ last_call.params.layouts # << >>
    /\ dashboards[last_call.id].version = 1
    /\ versions = EmptyBag

\* C11: a create whose payload carries a user_id other than the user_id of
\* the transaction ends in ERROR_INVALID_USER_ID and writes neither a
\* dashboard nor a version record: no create goes through with such a
\* user_id, and a refused create leaves both stores and the id counter as
\* they were.
C11_MismatchedUserIdRejected ==
    [][/\ (Served("create") /\ "user_id" \in last_call'.params.keys)
            => last_call'.params.user_id = TnxUserId
       /\ (last_call'.op = "create" /\ last_call'.result # "OK")
            => /\ last_call'.result = "ERROR_INVALID_USER_ID"
               /\ dashboards' = dashboards
               /\ versions' = versions
               /\ next_id' = next_id
      ]_vars

\* C11 witness: a create was refused for its user_id while a dashboard and a
\* version record are stored, and no second dashboard has appeared.
C11_Witness ==
    /\ last_call.op = "create" /\ last_call.result = "ERROR_INVALID_USER_ID"
    /\ DOMAIN dashboards = {1}
    /\ BagCardinality(versions) = 1

\* C12: a create that goes through stores scope USER when its payload
\* carries a user_id, which is then the user_id of the transaction and the
\* user_id stored, and scope DOMAIN when the payload carries none.
C12_ScopeFromUserId ==
    [][Served("create")
       => LET vo == dashboards'[last_call'.id]
              params == last_call'.params
          IN /\ vo.scope \in {"USER", "DOMAIN"}
             /\ vo.scope = "USER" <=> "user_id" \in params.keys
             /\ vo.scope = "DOMAIN" <=> "user_id" \notin params.keys
             /\ "user_id" \in params.keys
                  => params.user_id = TnxUserId /\ vo.user_id = TnxUserId
      ]_vars

\* C12 witness: two dashboards are stored, one created with the caller's
\* user_id and scope USER, one created without user_id and scope DOMAIN.
C12_Witness ==
    /\ \E id \in DOMAIN dashboards :
          dashboards[id].scope = "USER" /\ dashboards[id].user_id = TnxUserId
    /\ \E id \in DOMAIN dashboards :
          dashboards[id].scope = "DOMAIN" /\ dashboards[id].user_id = NoUser

\* C13: a version record is never modified.  In every step each record of
\* the version store stays as it is, with its version number, layouts,
\* options and schema; the one exception is a delete_version that goes
\* through, which takes exactly one record away and leaves the others.
C13_VersionRecordsImmutable ==
    [][IF Served("delete_version")
       THEN /\ versions' \sqsubseteq versions
            /\ BagCardinality(versions') = BagCardinality(versions) - 1
       ELSE versions \sqsubseteq versions'
      ]_vars

\* C13 witness: a revert_version went through on a dashboard that has been
\* updated since its creation, and its records 1 and 2 are both stored, the
\* record 2 with layouts other than those the revert has written.
C13_Witness ==
    /\ last_call.op = "revert_version" /\ last_call.result = "OK"
    /\ last_call.version = 1
    /\ \E r1, r2 \in RecordsOf(last_call.id) :
          /\ r1.version = 1 /\ r2.version = 2
          /\ dashboards[last_call.id].layouts = r1.layouts
          /\ r2.layouts # r1.layouts

\* C14: a private widget create under a dashboard the caller has ends in
\* ERROR_NOT_SUPPORTED_VERSION and stores no widget when the dashboard's
\* version is "1.0"; under any other version it goes through and stores
\* exactly one new widget, of that dashboard, next to the widgets stored
\* before.
C14_LegacyDashboardRejectsWidget ==
    [][(/\ pri_call'.op = "create"
        /\ private_dashboard_exists(pri_call'.dashboard_id, pri_call'.caller))
       => IF WidgetDashboards[pri_call'.dashboard_id].version = "1.0"
          THEN /\ pri_call'.result = "ERROR_NOT_SUPPORTED_VERSION"
               /\ pri_widgets' = pri_widgets
          ELSE /\ pri_call'.result = "OK"
               /\ pri_call'.widget_id \notin DOMAIN pri_widgets
               /\ DOMAIN pri_widgets' = DOMAIN pri_widgets \cup {pri_call'.widget_id}
               /\ \A w \in DOMAIN pri_widgets : pri_widgets'[w] = pri_widgets[w]
               /\ pri_widgets'[pri_call'.widget_id].dashboard_id =
                     pri_call'.dashboard_id
      ]_vars

\* C14 witness: a create under the legacy dashboard has just been refused,
\* and the one widget stored is a widget of the current dashboard.
C14_Witness ==
    /\ pri_call.op = "create"
    /\ pri_call.result = "ERROR_NOT_SUPPORTED_VERSION"
    /\ WidgetDashboards[pri_call.dashboard_id].version = "1.0"
    /\ Cardinality(DOMAIN pri_widgets) = 1
    /\ \A w \in DOMAIN pri_widgets :
          WidgetDashboards[pri_widgets[w].dashboard_id].version = "2.0"

\* the private and the public stores hold the same widgets and data tables,
\* ownership fields and data_type aside
SameWidgetStores ==
    /\ DOMAIN pri_widgets = DOMAIN pub_widgets
    /\ \A w \in DOMAIN pri_widgets :
          /\ pri_widgets[w].dashboard_id = pub_widgets[w].dashboard_id
          /\ pri_widgets[w].name = pub_widgets[w].name
          /\ pri_widgets[w].data_table_id = pub_widgets[w].data_table_id
    /\ DOMAIN pri_data_tables = DOMAIN pub_data_tables
    /\ \A t \in DOMAIN pri_data_tables :
          pri_data_tables[t].widget_id = pub_data_tables[t].widget_id

\* C15: the public and the private widget service answer alike.  When both
\* hold the same widgets and data tables and receive the same create, update
\* or load request, both go through or both end in the same error.
C15_PublicAndPrivateWidgetAgree ==
    [][(SameWidgetStores /\ pri_call'.op \in {"create", "update", "load"})
       => pri_call'.result = pub_call'.result
      ]_vars

\* C16: a private widget update that names a data table of the caller ends
\* in ERROR_INVALID_PARAMETER and leaves the widget store as it was when the
\* data table's widget_id is not the widget being updated; when it is, the
\* update goes through and the widget is stored with that data_table_id and
\* with the name the request set.
C16_ForeignDataTableRejected ==
    [][(/\ pri_call'.op = "update"
        /\ private_widget_exists(pri_call'.widget_id, pri_call'.caller)
        /\ pri_call'.data_table_id # NoId
        /\ private_data_table_exists(pri_call'.data_table_id, pri_call'.caller))
       => IF pri_data_tables[pri_call'.data_table_id].widget_id # pri_call'.widget_id
          THEN /\ pri_call'.result = "ERROR_INVALID_PARAMETER"
               /\ pri_widgets' = pri_widgets
          ELSE /\ pri_call'.result = "OK"
               /\ pri_widgets' =
                    [pri_widgets EXCEPT ![pri_call'.widget_id] =
                        [@ EXCEPT !.data_table_id = pri_call'.data_table_id,
                                  !.name = IF pri_call'.name # NoName
                                           THEN pri_call'.name ELSE @]]
      ]_vars

\* C16 witness: an update of one widget with the data table of another
\* widget has just been refused; that other widget has been updated with
\* its own data table and a new name before, and the refused one has
\* neither.
C16_Witness ==
    /\ pri_call.op = "update" /\ pri_call.result = "ERROR_INVALID_PARAMETER"
    /\ pri_call.name = "n2"
    /\ pri_widgets[pri_call.widget_id].data_table_id = NoId
    /\ pri_widgets[pri_call.widget_id].name = "n1"
    /\ \E w \in DOMAIN pri_widgets \ {pri_call.widget_id} :
          /\ pri_widgets[w].data_table_id = pri_call.data_table_id
          /\ pri_data_tables[pri_call.data_table_id].widget_id = w
          /\ pri_widgets[w].name = "n2"

\* C17: every widget, private or public, that has a data_table_id is bound
\* to a stored data table whose widget_id is that widget.
C17_BoundDataTableBelongsToWidget ==
    /\ \A w \in DOMAIN pri_widgets :
          pri_widgets[w].data_table_id # NoId
          => /\ pri_widgets[w].data_table_id \in DOMAIN pri_data_tables
             /\ pri_data_tables[pri_widgets[w].data_table_id].widget_id = w
    /\ \A w \in DOMAIN pub_widgets :
          pub_widgets[w].data_table_id # NoId
          => /\ pub_widgets[w].data_table_id \in DOMAIN pub_data_tables
             /\ pub_data_tables[pub_widgets[w].data_table_id].widget_id = w

\* C18: every stored data table, private or public, has a widget_id of a
\* stored widget with the same owner: user_id and domain_id for a private
\* data table, domain_id and workspace_id for a public one.
C18_DataTableWidgetExists ==
    /\ \A t \in DOMAIN pri_data_tables :
          /\ pri_data_tables[t].widget_id \in DOMAIN pri_widgets
          /\ pri_widgets[pri_data_tables[t].widget_id].user_id =
                pri_data_tables[t].user_id
          /\ pri_widgets[pri_data_tables[t].widget_id].domain_id =
                pri_data_tables[t].domain_id
    /\ \A t \in DOMAIN pub_data_tables :
          /\ pub_data_tables[t].widget_id \in DOMAIN pub_widgets
          /\ pub_widgets[pub_data_tables[t].widget_id].workspace_id =
                pub_data_tables[t].workspace_id
          /\ pub_widgets[pub_data_tables[t].widget_id].domain_id =
                pub_data_tables[t].domain_id

\* C19: a step in which a delete goes through removes the dashboard record
\* and nothing else: the other dashboards, every version record (those of the deleted
\* dashboard included), every widget and every data table stay as they
\* were.
C19_DeleteDoesNotCascade ==
    [][(Served("delete") /\ dashboard_vars' # dashboard_vars)
       => /\ last_call'.id \in DOMAIN dashboards
          /\ DOMAIN dashboards' = DOMAIN dashboards \ {last_call'.id}
          /\ \A other \in DOMAIN dashboards' : dashboards'[other] = dashboards[other]
          /\ versions' = versions
          /\ pri_widgets' = pri_widgets /\ pri_data_tables' = pri_data_tables
          /\ pub_widgets' = pub_widgets /\ pub_data_tables' = pub_data_tables
      ]_vars

\* C19 witness: get_version has just returned a version record of a
\* dashboard that is no longer stored, while another dashboard, a widget
\* and a data table are stored.
C19_Witness ==
    /\ last_call.op = "get_version" /\ last_call.result = "OK"
    /\ last_call.id \notin DOMAIN dashboards
    /\ last_call.id < next_id
    /\ RecordsOf(last_call.id) # {}
    /\ DOMAIN dashboards # {}
    /\ DOMAIN pri_widgets # {} /\ DOMAIN pri_data_tables # {}

\* the step stores exactly one new data table, under the id the call
\* reports, for the widget the call names and with the given data_type
StoresOneDataTable(before, after, call, data_type) ==
    /\ call.data_table_id \notin DOMAIN before
    /\ DOMAIN after = DOMAIN before \cup {call.data_table_id}
    /\ \A t \in DOMAIN before : after[t] = before[t]
    /\ after[call.data_table_id].widget_id = call.widget_id
    /\ after[call.data_table_id].data_type = data_type

\* C20: add and transform store a data table only for a widget the caller
\* has; without it they end in ERROR_NOT_FOUND and store nothing.  The
\* private add stores data_type ADDED, the private transform TRANSFORMED;
\* the public add and the public transform both store TRANSFORMED.
C20_DataTypeOfNewDataTable ==
    [][/\ pri_call'.op \in {"add", "transform"}
            => IF private_widget_exists(pri_call'.widget_id, pri_call'.caller)
               THEN /\ pri_call'.result = "OK"
                    /\ StoresOneDataTable(pri_data_tables, pri_data_tables', pri_call',
                          IF pri_call'.op = "add" THEN "ADDED" ELSE "TRANSFORMED")
               ELSE /\ pri_call'.result = "ERROR_NOT_FOUND"
                    /\ pri_data_tables' = pri_data_tables
       /\ pub_call'.op \in {"add", "transform"}
            => IF public_widget_exists(pub_call'.widget_id, pub_call'.caller)
               THEN /\ pub_call'.result = "OK"
                    /\ StoresOneDataTable(pub_data_tables, pub_data_tables', pub_call',
                          "TRANSFORMED")
               ELSE /\ pub_call'.result = "ERROR_NOT_FOUND"
                    /\ pub_data_tables' = pub_data_tables
      ]_vars

\* C20 witness: one add request has just gone through in both services;
\* the private data table it stored is ADDED, the public one TRANSFORMED,
\* and an earlier transform has stored a TRANSFORMED data table in each.
C20_Witness ==
    /\ pri_call.op = "add" /\ pri_call.result = "OK"
    /\ pub_call.op = "add" /\ pub_call.result = "OK"
    /\ pri_data_tables[pri_call.data_table_id].data_type = "ADDED"
    /\ pub_data_tables[pub_call.data_table_id].data_type = "TRANSFORMED"
    /\ \E t \in DOMAIN pri_data_tables : pri_data_tables[t].data_type = "TRANSFORMED"
    /\ \E t \in DOMAIN pub_data_tables \ {pub_call.data_table_id} :
          pub_data_tables[t].data_type = "TRANSFORMED"

\* C21: a load of a widget the caller has, private or public, that has no
\* data_table_id ends in ERROR_INVALID_PARAMETER (and so reaches no loader).
C21_LoadWithoutDataTableRejected ==
    [][/\ (/\ pri_call'.op = "load"
            /\ private_widget_exists(pri_call'.widget_id, pri_call'.caller)
            /\ pri_widgets[pri_call'.widget_id].data_table_id = NoId)
           => pri_call'.result = "ERROR_INVALID_PARAMETER"
       /\ (/\ pub_call'.op = "load"
            /\ public_widget_exists(pub_call'.widget_id, pub_call'.caller)
            /\ pub_widgets[pub_call'.widget_id].data_table_id = NoId)
           => pub_call'.result = "ERROR_INVALID_PARAMETER"
      ]_vars

\* C22: user_id and domain_id of a private widget, a private data table and
\* a dashboard are the same after every step as before it; and a request
\* (update, delete, load of a widget; update, delete of a data table; get,
\* update, delete, delete_version, revert_version of a dashboard) whose
\* caller's ownership ids are not those of the stored entity ends in
\* ERROR_NOT_FOUND and changes no store.
OwnershipKept(before, after) ==
    \A id \in DOMAIN before \cap DOMAIN after :
        /\ after[id].user_id = before[id].user_id
        /\ after[id].domain_id = before[id].domain_id

ForeignCaller(rec, caller) ==
    rec.user_id # caller.user_id \/ rec.domain_id # caller.domain_id

FirstTruthyKey(params) ==
    IF params.layouts # << >> THEN "layouts"
    ELSE IF params.dashboard_options # {} THEN "dashboard_options"
    ELSE IF params.dashboard_options_schema # {} THEN "dashboard_options_schema"
    ELSE "none"

C25_FirstTruthyKeyDecides ==
    [][Served("update") =>
          LET vo == dashboards[last_call'.id]
              k == FirstTruthyKey(last_call'.params)
              differs == k # "none" /\ last_call'.params[k] # vo[k]
          IN dashboards'[last_call'.id].version =
                 IF differs THEN vo.version + 1 ELSE vo.version
      ]_vars

\* an update carrying non-empty layouts and non-empty dashboard_options went
\* through on a dashboard that is still at version 1 with no version
\* record: the layouts were the stored ones and the options did not count
C25_Witness ==
    /\ last_call.op = "update" /\ last_call.result = "OK"
    /\ last_call.params.keys = {"layouts", "dashboard_options"}
    /\ last_call.params.layouts # << >>
    /\ last_call.params.dashboard_options # {}
    /\ dashboards[last_call.id].dashboard_options = last_call.params.dashboard_options
    /\ dashboards[last_call.id].version = DefaultVersion
    /\ RecordsOf(last_call.id) = {}

\* C26: an update that changes a versioned field and is cut off after
\* increase_version and create_version_by_domain_dashboard_vo leaves the
\* dashboard with the counter one above the loaded one, a version record of
\* that number holding the loaded values, and the loaded values still in
\* the versioned fields.  The interruption itself undoes nothing, and a get
\* or get_version that follows is answered as on any other stored state and
\* leaves the dashboard as it is.
TornUpdate(t) ==
    LET f == in_flight[t]
    IN /\ f.pc = "interrupted"
       /\ f.id \in DOMAIN dashboards
       /\ dashboards[f.id].version = f.vo.version + 1
       /\ version_of(f.id, increase_version(f.vo)) \in BagToSet(versions)
       /\ dashboards[f.id].layouts = f.vo.layouts
       /\ dashboards[f.id].dashboard_options = f.vo.dashboard_options
       /\ dashboards[f.id].dashboard_options_schema = f.vo.dashboard_options_schema
       /\ f.params.layouts # f.vo.layouts

C26_InterruptedUpdateStaysTorn ==
    [][/\ (in_flight["t1"].pc = "bumped" /\ in_flight'["t1"].pc = "interrupted")
          => /\ TornUpdate("t1")'
             /\ UNCHANGED <<dashboards, versions>>
       /\ (/\ TornUpdate("t1")
           /\ in_flight' = in_flight
           /\ last_call'.op \in {"get", "get_version"})
          => /\ TornUpdate("t1")'
             /\ UNCHANGED <<dashboards, versions>>
             /\ (last_call'.op = "get" /\ last_call'.id = in_flight["t1"].id)
                  => last_call'.result = "OK"
             /\ (/\ last_call'.op = "get_version"
                 /\ last_call'.id = in_flight["t1"].id
                 /\ last_call'.version = dashboards[last_call'.id].version)
                  => last_call'.result = "OK"
      ]_vars

\* the update of t1 was cut off, the dashboard is left as described, and a
\* get_version of the current version number found the record
C26_Witness ==
    /\ TornUpdate("t1")
    /\ last_call.op = "get_version"
    /\ last_call.id = in_flight["t1"].id
    /\ last_call.version = dashboards[last_call.id].version
    /\ last_call.result = "OK"

\* C27: when two updates of one dashboard that both change a versioned
\* field have run interleaved (both loaded the same stored record) and both
\* are through, the version records of the dashboard have pairwise distinct
\* version numbers, the counter is two above the loaded one, and the
\* layouts of the update whose write was overwritten are in a version
\* record.
RaceOver ==
    /\ \A t \in Transactions : in_flight[t].pc = "done" /\ in_flight[t].changed
    /\ in_flight["t1"].id = in_flight["t2"].id
    /\ in_flight["t1"].vo = in_flight["t2"].vo

C27_InterleavedUpdatesKeepHistory ==
    RaceOver =>
        LET id == in_flight["t1"].id
        IN /\ \A r \in RecordsOf(id) : CopiesIn(r, versions) = 1
           /\ \A r1, r2 \in RecordsOf(id) : r1.version = r2.version => r1 = r2
           /\ dashboards[id].version = in_flight["t1"].vo.version + 2
           /\ \A t \in Transactions :
                 in_flight[t].params.layouts # dashboards[id].layouts
                 => \E r \in RecordsOf(id) : r.layouts = in_flight[t].params.layouts

\* C28: when an update or a revert_version that goes through leaves layouts,
\* dashboard_options or dashboard_options_schema of the dashboard with
\* another value than before, the three values it had before are held by a
\* version record of the dashboard right after the step.
VersionedValues(r) ==
    <<r.layouts, r.dashboard_options, r.dashboard_options_schema>>

C28_OverwrittenValuesAreSnapshotted ==
    [][(/\ Served("update") \/ Served("revert_version")
        /\ last_call' # last_call
        /\ VersionedValues(dashboards'[last_call'.id])
              # VersionedValues(dashboards[last_call'.id]))
       => \E r \in BagToSet(versions') :
             /\ r.domain_dashboard_id = last_call'.id
             /\ VersionedValues(r) = VersionedValues(dashboards[last_call'.id])
      ]_vars

\* C29: the version record of a bumping update is written after the
\* increment: it carries the new version number, which is the current one,
\* and the values loaded before the update.  While the update that wrote it
\* is the last one, delete_version of the current version number is refused
\* with ERROR_LATEST_VERSION, and revert_version to the current version
\* number puts back the values the dashboard had before that update.
LastUpdateBumped(t) == in_flight[t].pc = "done" /\ in_flight[t].changed

C29_NewestRecordIsPreUpdateState ==
    [][/\ (in_flight["t1"].pc = "loaded" /\ in_flight'["t1"].changed)
          => LET f == in_flight["t1"]
                 r == version_of(f.id, increase_version(f.vo))
             IN /\ versions' = versions (+) SetToBag({r})
                /\ r.version = dashboards'[f.id].version
                /\ VersionedValues(r) = VersionedValues(dashboards[f.id])
       /\ (/\ LastUpdateBumped("t1")
           /\ in_flight' = in_flight
           /\ last_call' # last_call
           /\ last_call'.id = in_flight["t1"].id
           /\ last_call'.domain_id = in_flight["t1"].domain_id
           /\ last_call'.version = dashboards[last_call'.id].version)
          => /\ last_call'.op = "delete_version"
                => /\ last_call'.result = "ERROR_LATEST_VERSION"
                   /\ UNCHANGED <<dashboards, versions>>
             /\ last_call'.op = "revert_version"
                => /\ last_call'.result = "OK"
                   /\ VersionedValues(dashboards'[last_call'.id])
                        = VersionedValues(in_flight["t1"].vo)
      ]_vars

\* an update that wrote other layouts went through, and a revert_version to
\* the current version number then put the layouts loaded by that update
\* back
C29_Witness ==
    /\ LastUpdateBumped("t1")
    /\ last_call.op = "revert_version" /\ last_call.result = "OK"
    /\ last_call.id = in_flight["t1"].id
    /\ last_call.version = dashboards[last_call.id].version
    /\ in_flight["t1"].params.layouts # in_flight["t1"].vo.layouts
    /\ dashboards[last_call.id].layouts = in_flight["t1"].vo.layouts

\* C30: update, delete_version and revert_version on a dashboard id that is
\* not stored in the caller's domain, and revert_version and get_version
\* with a version number no record of that dashboard and domain carries,
\* end in ERROR_NOT_FOUND and leave the dashboards, the version records and
\* the id counter as they were.
C30_MissingTargetIsNotFound ==
    [][(/\ last_call' # last_call
        /\ \/ /\ last_call'.op \in {"update", "delete_version", "revert_version"}
              /\ ~dashboard_exists(last_call'.id, last_call'.domain_id)
           \/ /\ last_call'.op \in {"revert_version", "get_version"}
              /\ matching_versions(last_call'.id, last_call'.version,
                                   last_call'.domain_id) = {})
       => /\ last_call'.result = "ERROR_NOT_FOUND"
          /\ UNCHANGED <<dashboards, versions, next_id>>
      ]_vars

\* a revert_version to a version number without record was turned away on
\* a dashboard that is stored, at version 2, with the record of version 2
C30_Witness ==
    /\ last_call.op = "revert_version"
    /\ last_call.result = "ERROR_NOT_FOUND"
    /\ dashboard_exists(last_call.id, last_call.domain_id)
    /\ dashboards[last_call.id].version = 2
    /\ last_call.version = 1
    /\ matching_versions(last_call.id, 2, last_call.domain_id) # {}
    /\ matching_versions(last_call.id, 1, last_call.domain_id) = {}

============================================================================
